---- MODULE Spec2Model ----
(***************************************************************************)
(* EFL Cafe Wizard (src/3.py): the editing session (questions, title,      *)
(* level, worker threads, exact preview) and the manifest-based updater.   *)
(*                                                                         *)
(* Text is a sequence of tokens.  A token is one character that the code   *)
(* inspects (" ", "?", "|", ".", a digit) or an opaque run of other        *)
(* characters.                                                             *)
(***************************************************************************)
EXTENDS Integers, Sequences, FiniteSets, TLC

\* ------------------------------------------------------------------ bounds
\* user operations (edits, clicks) in one session
MaxOps == 3
MaxFetches == 3
MaxVerLen == 3
\* lines of a reply text, and the largest max_items
MaxLines == 2
MaxItems == 2
\* entries of a short question list
MaxList == 2
\* tokens of a prompt template
MaxTemplate == 4

\* ------------------------------------------------------------ text helpers
\* \s of the re module, and what str.strip() removes
WS == {" ", "\t", "\n"}

RECURSIVE lstrip(_)
lstrip(s) == IF s # <<>> /\ Head(s) \in WS THEN lstrip(Tail(s)) ELSE s

RECURSIVE rstrip(_)
rstrip(s) ==
    IF s # <<>> /\ s[Len(s)] \in WS THEN rstrip(SubSeq(s, 1, Len(s) - 1)) ELSE s

\* str.strip()
strip(s) == rstrip(lstrip(s))

\* re.sub(r"\s+", " ", s)
RECURSIVE collapse_ws(_)
collapse_ws(s) ==
    IF s = <<>> THEN <<>>
    ELSE IF Head(s) \in WS
         THEN <<" ">> \o collapse_ws(lstrip(s))
         ELSE <<Head(s)>> \o collapse_ws(Tail(s))

\* str.endswith("?")
EndsQ(s) == s # <<>> /\ s[Len(s)] = "?"

\* str.lower(), on ASCII
lower_char(c) ==
    CASE c = "A" -> "a" [] c = "B" -> "b" [] c = "C" -> "c" [] c = "D" -> "d"
      [] c = "E" -> "e" [] c = "F" -> "f" [] c = "G" -> "g" [] c = "H" -> "h"
      [] c = "I" -> "i" [] c = "J" -> "j" [] c = "K" -> "k" [] c = "L" -> "l"
      [] c = "M" -> "m" [] c = "N" -> "n" [] c = "O" -> "o" [] c = "P" -> "p"
      [] c = "Q" -> "q" [] c = "R" -> "r" [] c = "S" -> "s" [] c = "T" -> "t"
      [] c = "U" -> "u" [] c = "V" -> "v" [] c = "W" -> "w" [] c = "X" -> "x"
      [] c = "Y" -> "y" [] c = "Z" -> "z"
      [] OTHER -> c

lower(s) == [i \in 1..Len(s) |-> lower_char(s[i])]

\* pat in s
contains(s, pat) ==
    \E i \in 1..(Len(s) - Len(pat) + 1) : SubSeq(s, i, i + Len(pat) - 1) = pat

\* str.startswith(pre)
startswith(s, pre) == Len(s) >= Len(pre) /\ SubSeq(s, 1, Len(pre)) = pre

\* s.strip(chars) / s.rstrip(chars)
RECURSIVE lstrip_chars(_, _)
lstrip_chars(s, cs) ==
    IF s # <<>> /\ Head(s) \in cs THEN lstrip_chars(Tail(s), cs) ELSE s

RECURSIVE rstrip_chars(_, _)
rstrip_chars(s, cs) ==
    IF s # <<>> /\ s[Len(s)] \in cs
    THEN rstrip_chars(SubSeq(s, 1, Len(s) - 1), cs) ELSE s

strip_chars(s, cs) == rstrip_chars(lstrip_chars(s, cs), cs)

\* length of the longest prefix of s made of characters in cs
RECURSIVE run_len(_, _)
run_len(s, cs) ==
    IF s # <<>> /\ Head(s) \in cs THEN 1 + run_len(Tail(s), cs) ELSE 0

Drop(s, n) == SubSeq(s, n + 1, Len(s))

\* length of the longest prefix of s with no character of cs
RECURSIVE span_len(_, _)
span_len(s, cs) ==
    IF s # <<>> /\ Head(s) \notin cs THEN 1 + span_len(Tail(s), cs) ELSE 0

\* the pieces of s between occurrences of "\n", empty pieces included
\* (str.split('\n'))
RECURSIVE split_nl(_)
split_nl(s) ==
    LET k == span_len(s, {"\n"})
    IN  IF k = Len(s) THEN <<s>>
        ELSE <<SubSeq(s, 1, k)>> \o split_nl(Drop(s, k + 1))

\* str.splitlines(): no line for an empty text, none after a final "\n"
splitlines(s) ==
    IF s = <<>> THEN <<>>
    ELSE IF s[Len(s)] = "\n" THEN split_nl(SubSeq(s, 1, Len(s) - 1))
         ELSE split_nl(s)

DIGITS == {"0", "1", "2", "3", "4", "5", "6", "7", "8", "9"}

\* Python's None where a str is expected
NoneVal == <<"<None>">>

\* (q or "")
OrEmpty(q) == IF q = NoneVal THEN <<>> ELSE q

\* ------------------------------------------- parse_numbered_questions
\* re.match(r'^\s*(\d+)[\.\)]\s+(.*)\?$', s): group 2, or NoMatch
NoMatch == <<"<no match>">>

numbered_group(s) ==
    LET w == run_len(s, WS)
        d == run_len(Drop(s, w), DIGITS)
        r == Drop(s, w + d)
        g == run_len(Drop(r, 1), WS)
    IN  IF d >= 1 /\ r # <<>> /\ Head(r) \in {".", ")"} /\ g >= 1 /\ EndsQ(s)
        THEN SubSeq(r, g + 2, Len(r) - 1)
        ELSE NoMatch

\* re.match(r'^[\-\*\u2022]\s+(.*)\?$', s): group 1, or NoMatch
bulleted_group(s) ==
    LET g == run_len(Drop(s, 1), WS)
    IN  IF s # <<>> /\ Head(s) \in {"-", "*", "<u2022>"} /\ g >= 1 /\ EndsQ(s)
        THEN SubSeq(s, g + 2, Len(s) - 1)
        ELSE NoMatch

\* the first loop: one candidate per numbered or bulleted line ending in "?"
RECURSIVE line_candidates(_)
line_candidates(lines) ==
    IF lines = <<>> THEN <<>>
    ELSE LET s  == strip(Head(lines))
             m  == numbered_group(s)
             m2 == bulleted_group(s)
         IN  (IF m # NoMatch THEN << strip(m) \o <<"?">> >>
              ELSE IF m2 # NoMatch THEN << strip(m2) \o <<"?">> >>
              ELSE <<>>) \o line_candidates(Tail(lines))

\* length of the match of r'\s*\d+[\.\)]\s+' at the start of s, 0 if none
marker_len(s) ==
    LET w == run_len(s, WS)
        d == run_len(Drop(s, w), DIGITS)
        r == Drop(s, w + d)
        g == run_len(Drop(r, 1), WS)
    IN  IF d >= 1 /\ r # <<>> /\ Head(r) \in {".", ")"} /\ g >= 1
        THEN w + d + 1 + g ELSE 0

\* re.split(r'\s*\d+[\.\)]\s+', text)
RECURSIVE split_markers(_, _)
split_markers(s, cur) ==
    IF s = <<>> THEN <<cur>>
    ELSE IF marker_len(s) > 0
         THEN <<cur>> \o split_markers(Drop(s, marker_len(s)), <<>>)
         ELSE split_markers(Tail(s), Append(cur, Head(s)))

\* the fallback loop: the stripped parts that end in "?"
RECURSIVE part_candidates(_)
part_candidates(parts) ==
    IF parts = <<>> THEN <<>>
    ELSE LET c == strip(Head(parts))
         IN  (IF EndsQ(c) THEN <<c>> ELSE <<>>) \o part_candidates(Tail(parts))

QUOTES == {"\"", "<u201d>"}

\* the body of the last loop for one q, before the membership test
clean_question(q0) ==
    LET q == rstrip(strip_chars(strip(collapse_ws(q0)), QUOTES))
    IN  IF EndsQ(q) THEN q ELSE rstrip_chars(q, {".", "!", " "}) \o <<"?">>

\* the last loop without the membership test
RECURSIVE dedupe_keep_all(_, _)
dedupe_keep_all(out, seen) ==
    IF out = <<>> THEN <<>>
    ELSE <<clean_question(Head(out))>> \o dedupe_keep_all(Tail(out), seen)

\* the last loop: clean each item, skip those whose lower() was seen
RECURSIVE dedupe(_, _)
dedupe(out, seen) ==
    IF out = <<>> THEN <<>>
    ELSE LET q == clean_question(Head(out))
         IN  IF lower(q) \in seen THEN dedupe(Tail(out), seen)
             ELSE <<q>> \o dedupe(Tail(out), seen \cup {lower(q)})

\* out[:n]
Take(s, n) == SubSeq(s, 1, IF n < Len(s) THEN n ELSE Len(s))

\* src/3.py: parse_numbered_questions(text, max_items)
parse_numbered_questions(text, max_items) ==
    LET t   == OrEmpty(text)
        o1  == line_candidates(splitlines(t))
        out == IF o1 = <<>> THEN part_candidates(split_markers(t, <<>>)) ELSE o1
    IN  dedupe(Take(out, max_items), {})

\* efl_cafe/core/prompts.py, re.match(r'^\d+\.\s*(.+)$', line): group 1
pkg_numbered_group(line) ==
    LET d == run_len(line, DIGITS)
        r == Drop(line, d)
        g == lstrip(Drop(r, 1))
    IN  IF d >= 1 /\ r # <<>> /\ Head(r) = "." /\ g # <<>> THEN g ELSE NoMatch

\* efl_cafe/core/prompts.py: the loop over the lines, with its break
RECURSIVE pkg_scan(_, _, _)
pkg_scan(lines, questions, max_items) ==
    IF lines = <<>> THEN questions
    ELSE LET line == strip(Head(lines))
             m    == pkg_numbered_group(line)
             qs   == IF m # NoMatch /\ EndsQ(strip(m))
                     THEN Append(questions, strip(m)) ELSE questions
         IN  IF line = <<>> THEN pkg_scan(Tail(lines), questions, max_items)
             ELSE IF Len(qs) >= max_items THEN qs
             ELSE pkg_scan(Tail(lines), qs, max_items)

\* efl_cafe/core/prompts.py: parse_numbered_questions(text, max_items)
pkg_parse_numbered_questions(text, max_items) ==
    pkg_scan(split_nl(strip(text)), <<>>, max_items)

\* --------------------------------------------------------- program values
\* src/3.py:594, in list order, each token character by character
LEVEL_TOKENS ==
    << <<"A", "1">>, <<"A", "2">>, <<"B", "1">>, <<"B", "1", "+">>,
       <<"B", "2">>, <<"C", "1">>, <<"C", "2">> >>

\* the filler question of _ensure_15 and GeminiBatchWorker.run
Filler == <<"How could this topic affect an everyday situation at home, work, or school", "?">>

\* App.__init__: the fifteen placeholder rows
InitialQuestions ==
    [i \in 1..15 |-> <<"Question", " ", ToString(i), " ", "goes", " ", "here">>]

\* ----------------------------------------------------------- input domains
\* what a user can type into a question row
EditTexts == { <<" ", "a", "?", " ">>, <<"b">> }
\* row indexes carried by text_changed / regen_requested (0-based), and two
\* out-of-range ones
EditIdx == {-1, 0, 14, 15}
\* what a user can type into the title box
TitleTexts == { <<>>, <<" ", "T", " ">> }
\* levels picked in the combo box
LevelChoices == { LEVEL_TOKENS[5], LEVEL_TOKENS[1] }
\* "\n".join(lines)
RECURSIVE join_nl(_)
join_nl(lines) ==
    IF lines = <<>> THEN <<>>
    ELSE IF Len(lines) = 1 THEN lines[1]
         ELSE lines[1] \o <<"\n">> \o join_nl(Tail(lines))

\* resp.text of generate_content: absent, two questions, sixteen questions,
\* a repeated question followed by a line that is no question
ResponseTexts ==
    { NoneVal,
      <<"1", ".", " ", "a", "?", "\n", "2", ")", " ", "c", " ", "d", "?">>,
      join_nl([i \in 1..16 |-> <<"1", ".", " ", "q", ToString(i), "?">>]),
      <<"1", ".", " ", "a", "?", "\n", "2", ".", " ", "A", "?", "\n", "b", ".">> }
\* resp.text of the single-question request
SingleTexts == { <<"e", "?">> }
\* how a PreviewWorker.run ends
PreviewOutcomes ==
    {"deps_missing", "no_template", "no_marker", "convert_fail", "raster_fail", "ok"}

\* every user operation starts at most two threads (a Gemini worker, and the
\* preview worker its result triggers)
Threads == 1..(2 * MaxOps)

VARIABLES
    questions,        \* App.questions
    unit_title,       \* App.unit_title
    level,            \* App.level
    App_workers,      \* App._workers
    thr,              \* the QThread objects created so far
    sigq,             \* signals queued to the UI thread, oldest first
    prog,             \* workers whose modal progress dialog is open
    btn_generate,     \* btn_generate.isEnabled()
    preview_visible,  \* preview.isVisible()
    title_edit,       \* title_edit.text()
    pm,               \* SimplePreview._pm: NullPm or the key of the image loaded
    scaled,           \* SimplePreview._scaled: NullPm or the key of the image scaled
    png,              \* preview workers whose preview.png exists
    render_timers,    \* pending QTimer.singleShot(100, _start_exact_render)
    ops               \* user operations so far

svars == <<questions, unit_title, level, App_workers, thr, sigq, prog,
           btn_generate, preview_visible, title_edit, pm, scaled, png,
           render_timers, ops>>

VARIABLES
    UPDATE_IN_PROGRESS,  \* the module global
    ustack,         \* open UpdateAvailableDialog.exec_() loops, innermost last
    notifq,         \* update_available signals queued to the UI thread
    dls,            \* the _Downloader threads started so far
    fetches,        \* fetch_manifest calls so far
    lock_file,      \* <target>.update_lock exists
    replaced,       \* begin_update_replace calls that launched a replacement
    exited,         \* QApplication.quit(); sys.exit(0) was reached
    os_nt           \* os.name == "nt"

uvars == <<UPDATE_IN_PROGRESS, ustack, notifq, dls, fetches, lock_file,
           replaced, exited, os_nt>>

VARIABLES
    va, vb,     \* two version strings
    ta, tb      \* their version tuples, once computed

vvars == <<va, vb, ta, tb>>

VARIABLES
    fn,         \* the function called on its own
    arg,        \* its arguments
    ret         \* <<what it returned>>, Pending before the call

cvars == <<fn, arg, ret>>

\* what the main window's handlers, the updater's, a version comparison and
\* a call of a function on its own leave alone
SFrame == UNCHANGED <<uvars, vvars, cvars>>

UFrame == UNCHANGED <<svars, vvars, cvars>>

VFrame == UNCHANGED <<svars, uvars, cvars>>

CFrame == UNCHANGED <<svars, uvars, vvars>>

NoThread == [kind |-> "none", pc |-> "none", key |-> <<>>, index |-> -1,
             emitted |-> <<>>, payload |-> <<>>, handled |-> <<>>]

\* ---------------------------------------------------------- pure functions
\* the list comprehension without its "if": blank entries kept
RECURSIVE nonblank_norm_unfiltered(_)
nonblank_norm_unfiltered(qs) ==
    IF qs = <<>> THEN <<>>
    ELSE <<collapse_ws(strip(OrEmpty(Head(qs))))>> \o nonblank_norm_unfiltered(Tail(qs))

\* _ensure_15: the list comprehension
RECURSIVE nonblank_norm(_)
nonblank_norm(qs) ==
    IF qs = <<>> THEN <<>>
    ELSE IF strip(OrEmpty(Head(qs))) # <<>>
         THEN <<collapse_ws(strip(OrEmpty(Head(qs))))>> \o nonblank_norm(Tail(qs))
         ELSE nonblank_norm(Tail(qs))

\* _ensure_15: the while loop
RECURSIVE pad_15(_)
pad_15(qs) == IF Len(qs) < 15 THEN pad_15(Append(qs, Filler)) ELSE qs

\* _ensure_15 with the list length written as 14
_ensure_15_short(qs) ==
    LET f == nonblank_norm(qs)
        t == IF Len(f) > 14 THEN SubSeq(f, 1, 14) ELSE f
    IN  IF Len(t) < 14 THEN SubSeq(pad_15(t), 1, 14) ELSE t

_ensure_15(qs) ==
    LET f == nonblank_norm(qs)
        t == IF Len(f) > 15 THEN SubSeq(f, 1, 15) ELSE f
    IN  pad_15(t)

\* concatenation of a list of texts, each preceded by "|"
RECURSIVE bar_join(_)
bar_join(qs) == IF qs = <<>> THEN <<>> ELSE <<"|">> \o Head(qs) \o bar_join(Tail(qs))

\* App._content_key: the bytes fed to SHA-1 (SHA-1 taken as injective)
key_of(t, l, qs) == t \o l \o bar_join(qs)

_content_key == key_of(unit_title, level, questions)

\* QPixmap(): the null pixmap
NullPm == <<>>

\* contents of the topics box
TopicsTexts ==
    { <<"a">>,
      <<"*", " ", "a", "\n", "v", "o", "c", "a", "b", ":", " ", "b">>,
      <<"U", "n", "i", "t", " ", "1", " ", "-", " ", "F">>,
      <<"U", "n", "i", "t", " ", "1", "A", "-", "F", "\n",
        "V", "o", "c", "a", "b", ":", " ", "b">>,
      <<"a", "\n", "u", "n", "i", "t", "s", " ", "-", " ", "F">>,
      <<"v", "o", "c", "a", "b", ":", "\n", "U", "n", "i", "t", " ", "2",
        " ", "-">> }
\* titles returned by extract_topics_from_text
OcrTitles == { <<"T">> }

\* ------------------------------------------------------------ thread pool
FreeIds == {w \in Threads : thr[w].kind = "none"}
NewId == CHOOSE w \in FreeIds : \A v \in FreeIds : w <= v

NewThread(kind, key, index) ==
    [kind |-> kind, pc |-> "running", key |-> key, index |-> index,
     emitted |-> <<>>, payload |-> <<>>, handled |-> <<>>]

\* a signal emission in run(): recorded on the thread and queued to the UI
Emit(w, sigs, payload) ==
    /\ thr' = [thr EXCEPT ![w].pc = "returned",
                          ![w].emitted = @ \o sigs,
                          ![w].payload = payload]
    /\ sigq' = sigq \o [i \in 1..Len(sigs) |-> [w |-> w, sig |-> sigs[i]]]

\* the slot for the oldest queued signal is about to run
Delivering(w, kind, sig) ==
    /\ sigq # <<>>
    /\ Head(sigq) = [w |-> w, sig |-> sig]
    /\ thr[w].kind = kind

\* the slot has run; a thread object none of whose signals is still queued is
\* garbage, and its key and payload are dropped with it
Handled(th, w, what) ==
    IF \E i \in 2..Len(sigq) : sigq[i].w = w
    THEN [th EXCEPT ![w].handled = Append(@, what)]
    ELSE [th EXCEPT ![w].handled = Append(@, what),
                    ![w].key = <<>>, ![w].payload = <<>>]

\* questions[idx + 1] = v: the 1-based row number used as the list index
SetAt_next(qs, idx, v) ==
    IF idx + 2 <= Len(qs) THEN [qs EXCEPT ![idx + 2] = v] ELSE qs

\* questions[idx] = v   (idx is 0-based)
SetAt(qs, idx, v) == [qs EXCEPT ![idx + 1] = v]

\* a modal dialog blocks input to the main window
NoModal == prog = {}

\* one more user operation
UserOp == ops < MaxOps /\ ops' = ops + 1

\* --------------------------------------------------------------- Init
\* the main window with typed in the title box and nothing else done
SStart(typed) ==
    /\ questions = InitialQuestions
    /\ unit_title = strip(OrEmpty(typed))
    /\ level = LEVEL_TOKENS[5]
    /\ App_workers = {}
    /\ thr = [w \in Threads |-> NoThread]
    /\ sigq = <<>>
    /\ prog = {}
    /\ btn_generate = TRUE
    /\ preview_visible = FALSE
    /\ title_edit = typed
    /\ pm = NullPm
    /\ scaled = NullPm
    /\ png = {}
    /\ render_timers = 0
    /\ ops = 0

\* App.__init__
SInit == SStart(<<>>)

\* ------------------------------------------------------------ the preview
\* SimplePreview.clear: _pm is reset, _scaled is not touched
SimplePreview_clear == pm' = NullPm /\ scaled' = scaled

\* SimplePreview._rescale: _scaled is the scaled copy of _pm, null for a
\* null _pm
_rescale == scaled' = pm'

\* SimplePreview.show_exact for an existing PNG rendered for content key k
show_exact(k) == pm' = k /\ _rescale

\* SimplePreview.paintEvent: the page image drawn, NullPm for none; a hidden
\* widget gets no paint event
paintEvent == IF preview_visible THEN scaled ELSE NullPm

\* SimplePreview.resizeEvent with a new width
resizeEvent ==
    /\ NoModal
    /\ UserOp
    /\ preview_visible
    /\ pm' = pm /\ _rescale
    /\ UNCHANGED <<questions, unit_title, level, App_workers, thr, sigq, prog,
                   btn_generate, preview_visible, title_edit, png, render_timers>>
    /\ SFrame

\* ------------------------------------------------------ reactive handlers
on_title_changed(txt) ==
    /\ NoModal
    /\ UserOp
    /\ txt # title_edit
    /\ title_edit' = txt
    /\ unit_title' = strip(OrEmpty(txt))
    /\ SimplePreview_clear
    /\ UNCHANGED <<questions, level, App_workers, thr, sigq, prog, btn_generate,
                   preview_visible, png, render_timers>>
    /\ SFrame

on_level_changed(lvl) ==
    /\ NoModal
    /\ UserOp
    /\ lvl # level
    /\ level' = lvl
    /\ SimplePreview_clear
    /\ UNCHANGED <<questions, unit_title, App_workers, thr, sigq, prog,
                   btn_generate, preview_visible, title_edit, png, render_timers>>
    /\ SFrame

on_text_edit(idx, new_text) ==
    IF 0 <= idx /\ idx < Len(questions)
    THEN /\ questions' = SetAt(questions, idx, strip(new_text))
         /\ SimplePreview_clear
         /\ UNCHANGED <<unit_title, level, App_workers, thr, sigq, prog,
                        btn_generate, preview_visible, title_edit, png,
                        render_timers>>
    ELSE UNCHANGED <<questions, unit_title, level, App_workers, thr, sigq, prog,
                    btn_generate, preview_visible, title_edit, pm, scaled, png,
                    render_timers>>

\* QuestionRow: EditableLine emits edited_confirmed(self.text().strip()) and
\* the row forwards it as text_changed(self.index - 1, t); a row is edited
\* only while no modal dialog holds the input focus
RowEdited(idx, typed) ==
    /\ NoModal /\ UserOp /\ on_text_edit(idx, strip(typed))
    /\ SFrame

\* ------------------------------------------------------------ exact preview
\* App._start_exact_render on thread table th and worker set aw, for content
\* key k.  quit() on a QThread whose run() is overridden and has no event
\* loop stops nothing, and wait(100) only waits: the old workers are merely
\* forgotten.
_start_exact_render(th, aw, k) ==
    LET old == {w \in aw : th[w].kind = "preview"}
        n   == CHOOSE w \in Threads :
                   /\ th[w].kind = "none"
                   /\ \A v \in Threads : th[v].kind = "none" => w <= v
    IN  [thr     |-> [th EXCEPT ![n] = NewThread("preview", k, -1)],
         workers |-> (aw \ old) \cup {n}]

render_exact_now ==
    /\ NoModal
    /\ UserOp
    /\ FreeIds # {}
    /\ preview_visible' = TRUE
    /\ LET r == _start_exact_render(thr, App_workers, _content_key)
       IN  thr' = r.thr /\ App_workers' = r.workers
    /\ UNCHANGED <<questions, unit_title, level, sigq, prog, btn_generate,
                   title_edit, pm, scaled, png, render_timers>>
    /\ SFrame

\* QTimer.singleShot(100, self._start_exact_render) armed by _apply_batch
render_timer_fires ==
    /\ render_timers > 0
    /\ FreeIds # {}
    /\ render_timers' = render_timers - 1
    /\ LET r == _start_exact_render(thr, App_workers, _content_key)
       IN  thr' = r.thr /\ App_workers' = r.workers
    /\ UNCHANGED <<questions, unit_title, level, sigq, prog, btn_generate,
                   preview_visible, title_edit, pm, scaled, png, ops>>
    /\ SFrame

\* the signals PreviewWorker.run emits on the path named by outcome
PreviewSignals(outcome) ==
    CASE outcome = "deps_missing" -> <<"failed">>
      [] outcome = "no_template"  -> <<"failed">>
      [] outcome = "no_marker"    -> <<"failed">>
      \* the handler of the conversion error emits failed and falls through
      \* to fitz.open(tmp_pdf), which raises on the removed file: the outer
      \* handler emits failed again
      [] outcome = "convert_fail" -> <<"failed", "failed">>
      [] outcome = "raster_fail"  -> <<"failed">>
      [] outcome = "ok"           -> <<"done">>

PreviewWorker_run(w, outcome) ==
    /\ thr[w].kind = "preview" /\ thr[w].pc = "running"
    /\ Emit(w, PreviewSignals(outcome), <<>>)
    /\ png' = IF outcome = "ok" THEN png \cup {w} ELSE png
    /\ UNCHANGED <<questions, unit_title, level, App_workers, prog,
                   btn_generate, preview_visible, title_edit, pm, scaled,
                   render_timers, ops>>
    /\ SFrame

\* on_done without the comparison of k with the current content key
Preview_on_done_unchecked(w) ==
    /\ Delivering(w, "preview", "done")
    /\ sigq' = Tail(sigq)
    /\ show_exact(thr[w].key) /\ preview_visible' = TRUE
    /\ png' = png
    /\ thr' = Handled(thr, w, "shown")
    /\ App_workers' = App_workers \ {w}
    /\ UNCHANGED <<questions, unit_title, level, prog, btn_generate,
                   title_edit, render_timers, ops>>
    /\ SFrame

\* _start_exact_render.on_done(k, png_path)
Preview_on_done(w) ==
    /\ Delivering(w, "preview", "done")
    /\ sigq' = Tail(sigq)
    /\ IF thr[w].key = _content_key
       THEN \* SimplePreview.show_exact
            /\ IF w \in png
               THEN show_exact(thr[w].key) /\ preview_visible' = TRUE
               ELSE UNCHANGED <<pm, scaled, preview_visible>>
            /\ png' = png
            /\ thr' = Handled(thr, w, "shown")
       ELSE /\ png' = png \ {w}
            /\ thr' = Handled(thr, w, "stale")
            /\ UNCHANGED <<pm, scaled, preview_visible>>
    /\ App_workers' = App_workers \ {w}
    /\ UNCHANGED <<questions, unit_title, level, prog, btn_generate,
                   title_edit, render_timers, ops>>
    /\ SFrame

\* _start_exact_render.on_fail(msg)
Preview_on_fail(w) ==
    /\ Delivering(w, "preview", "failed")
    /\ sigq' = Tail(sigq)
    /\ thr' = Handled(thr, w, "warned")
    /\ App_workers' = App_workers \ {w}
    /\ UNCHANGED <<questions, unit_title, level, prog, btn_generate,
                   preview_visible, title_edit, pm, scaled, png, render_timers, ops>>
    /\ SFrame

\* ------------------------------------------------------- batch generation
\* the text after the first "-" of line: line.split("-", 1)[1]
after_dash(line) ==
    Drop(line, run_len(line, {line[i] : i \in 1..Len(line)} \ {"-"}) + 1)

\* UNIT_LINE_RE.match(line).group(1), NoneVal when the line does not match
\* ^\s*unit\s*\d+[A-B]?\s*-\s*(.+)$ without regard to case
UNIT_LINE_RE(line) ==
    LET a == lstrip(line)
        b == lstrip(Drop(a, 4))
        c == lstrip_chars(b, DIGITS)
        d == IF c # <<>> /\ lower_char(Head(c)) \in {"a", "b"}
             THEN Tail(c) ELSE c
        e == lstrip(d)
    IN  IF /\ startswith(lower(a), <<"u", "n", "i", "t">>)
           /\ c # b
           /\ e # <<>> /\ Head(e) = "-"
           /\ Tail(e) # <<>>
        THEN IF lstrip(Tail(e)) # <<>> THEN lstrip(Tail(e))
             ELSE <<e[Len(e)]>>
        ELSE NoneVal

\* parse_topics_spec: the unit title a line gives while none is set yet
\* (NoneVal: the line is not a unit line)
unit_line_title(line) ==
    IF UNIT_LINE_RE(line) # NoneVal THEN strip(UNIT_LINE_RE(line))
    ELSE IF startswith(lower(line), <<"u", "n", "i", "t">>)
            /\ contains(line, <<"-">>)
         THEN strip(after_dash(line))
         ELSE NoneVal

\* parse_topics_spec: the loop over the lines, as far as unit_title goes
RECURSIVE scan_unit_title(_)
scan_unit_title(lines) ==
    IF lines = <<>> THEN NoneVal
    ELSE LET line == strip(rstrip(Head(lines)))
         IN  IF line # <<>> /\ unit_line_title(line) # NoneVal
             THEN unit_line_title(line)
             ELSE scan_unit_title(Tail(lines))

\* parse_topics_spec(raw_text)[0]
parse_topics_spec(raw_text) ==
    IF scan_unit_title(splitlines(raw_text)) = <<>> THEN NoneVal
    ELSE scan_unit_title(splitlines(raw_text))

\* _parse_topics_block(text, fallback_unit)[0]
_parse_topics_block(text, fallback_unit) ==
    IF parse_topics_spec(text) = NoneVal THEN fallback_unit
    ELSE parse_topics_spec(text)

\* App.generate_with_gemini with topics_text in the topics box
generate_with_gemini(topics_text) ==
    /\ NoModal
    /\ UserOp
    /\ btn_generate
    /\ strip(unit_title) # <<>>
    /\ FreeIds # {}
    /\ unit_title' =
           IF topics_text # <<>>
              /\ contains(lower(topics_text),
                          <<"v", "o", "c", "a", "b", ":">>)
           THEN _parse_topics_block(topics_text, unit_title)
           ELSE unit_title
    /\ title_edit' = unit_title'
    /\ btn_generate' = FALSE
    /\ prog' = prog \cup {NewId}
    /\ thr' = [thr EXCEPT ![NewId] = NewThread("batch", <<>>, -1)]
    /\ App_workers' = App_workers \cup {NewId}
    /\ UNCHANGED <<questions, level, sigq, preview_visible, pm, scaled, png,
                   render_timers>>
    /\ SFrame

\* the while loop left out
worker_pad_skipped(qs) == qs

\* GeminiBatchWorker.run: the while loop that appends the filler
RECURSIVE worker_pad(_)
worker_pad(qs) == IF Len(qs) < 15 THEN worker_pad(Append(qs, Filler)) ELSE qs

\* GeminiBatchWorker.run: the list handed to ok.emit for the reply text
batch_result(text) == Take(worker_pad(parse_numbered_questions(text, 15)), 15)

\* GeminiBatchWorker.run: text is resp.text; failed: init_gemini or
\* generate_content raised
GeminiBatchWorker_run(w, text, failed) ==
    /\ thr[w].kind = "batch" /\ thr[w].pc = "running"
    /\ IF failed
       THEN Emit(w, <<"err">>, <<>>)
       ELSE Emit(w, <<"ok">>, batch_result(text))
    /\ UNCHANGED <<questions, unit_title, level, App_workers, prog,
                   btn_generate, preview_visible, title_edit, pm, scaled, png,
                   render_timers, ops>>
    /\ SFrame

\* App._apply_batch: the new list and the preview timer it arms
_apply_batch(qs) ==
    /\ questions' = _ensure_15(qs)
    /\ render_timers' = IF preview_visible THEN render_timers + 1
                        ELSE render_timers

\* generate_with_gemini.done(qs)
Batch_done(w) ==
    /\ Delivering(w, "batch", "ok")
    /\ sigq' = Tail(sigq)
    /\ \E qs \in {_ensure_15(thr[w].payload)} : _apply_batch(qs)
    /\ prog' = prog \ {w}
    /\ btn_generate' = TRUE
    /\ App_workers' = App_workers \ {w}
    /\ thr' = Handled(thr, w, "applied")
    /\ UNCHANGED <<unit_title, level, preview_visible, title_edit, pm, scaled, png, ops>>
    /\ SFrame

\* generate_with_gemini.fail(msg)
Batch_fail(w) ==
    /\ Delivering(w, "batch", "err")
    /\ sigq' = Tail(sigq)
    /\ prog' = prog \ {w}
    /\ btn_generate' = TRUE
    /\ App_workers' = App_workers \ {w}
    /\ thr' = Handled(thr, w, "error_box")
    /\ UNCHANGED <<questions, unit_title, level, preview_visible, title_edit,
                   pm, scaled, png, render_timers, ops>>
    /\ SFrame

\* generate_with_gemini.cancel()
Batch_cancel(w) ==
    /\ UserOp
    /\ w \in prog /\ thr[w].kind = "batch"
    /\ thr' = [thr EXCEPT ![w].pc = IF @ = "running" THEN "terminated" ELSE @,
                          ![w].handled = Append(@, "cancelled")]
    /\ prog' = prog \ {w}
    /\ btn_generate' = TRUE
    /\ App_workers' = App_workers \ {w}
    /\ UNCHANGED <<questions, unit_title, level, sigq, preview_visible,
                   title_edit, pm, scaled, png, render_timers>>
    /\ SFrame

\* ------------------------------------------------------ single regeneration
\* App.regen_single with spec in the topics box
regen_single(idx, spec) ==
    /\ NoModal
    /\ UserOp
    /\ 0 <= idx /\ idx < Len(questions)
    /\ strip(unit_title) # <<>>
    /\ FreeIds # {}
    /\ unit_title' = _parse_topics_block(spec, unit_title)
    /\ title_edit' = unit_title'
    /\ prog' = prog \cup {NewId}
    /\ thr' = [thr EXCEPT ![NewId] = NewThread("single", <<>>, idx)]
    /\ App_workers' = App_workers \cup {NewId}
    /\ UNCHANGED <<questions, level, sigq, btn_generate, preview_visible, pm, scaled,
                   png, render_timers>>
    /\ SFrame

\* the question used when the reply's first line is empty
DefaultSingle == <<"What everyday example fits this topic for you", "?">>

\* the first line used as it is
single_line_unfixed(line) == line

\* GeminiSingleWorker.run: the first line made to end in "?"
single_line(line) ==
    IF EndsQ(line) THEN line
    ELSE LET b == strip(rstrip_chars(line, {".", "!", " "}))
         IN  (IF b = <<>> THEN DefaultSingle ELSE b) \o <<"?">>

\* GeminiSingleWorker.run from the reply text to the signal emitted and the
\* question it carries; a text of whitespace only has no first line and the
\* IndexError ends in err
single_result(text) ==
    LET t     == OrEmpty(text)
        qs    == parse_numbered_questions(t, 1)
        lines == splitlines(strip(t))
    IN  IF qs # <<>> THEN [sig |-> "ok", q |-> qs[1]]
        ELSE IF t # <<>> /\ lines = <<>> THEN [sig |-> "err", q |-> <<>>]
        ELSE [sig |-> "ok",
              q   |-> collapse_ws(single_line(IF t # <<>> THEN lines[1] ELSE <<>>))]

\* GeminiSingleWorker.run: text is the reply text; failed: init_gemini, fmt
\* or generate_content raised
GeminiSingleWorker_run(w, text, failed) ==
    /\ thr[w].kind = "single" /\ thr[w].pc = "running"
    /\ IF failed \/ single_result(text).sig = "err"
       THEN Emit(w, <<"err">>, <<>>)
       ELSE Emit(w, <<"ok">>, single_result(text).q)
    /\ UNCHANGED <<questions, unit_title, level, App_workers, prog,
                   btn_generate, preview_visible, title_edit, pm, scaled, png,
                   render_timers, ops>>
    /\ SFrame

\* App._apply_single(idx, new_q), called from the slot of worker w; th is
\* the thread table the slot leaves behind
_apply_single(w, idx, new_q, th) ==
    /\ questions' = SetAt(questions, idx, new_q)
    /\ IF preview_visible
       THEN /\ FreeIds # {}
            /\ LET r == _start_exact_render(th, App_workers,
                                            key_of(unit_title, level, questions'))
               IN  /\ thr' = r.thr
                   /\ App_workers' = r.workers \ {w}
       ELSE /\ thr' = th
            /\ App_workers' = App_workers \ {w}

\* regen_single.done(index, new_q)
Single_done(w) ==
    /\ Delivering(w, "single", "ok")
    /\ sigq' = Tail(sigq)
    /\ IF strip(thr[w].payload) # <<>>
       THEN _apply_single(w, thr[w].index, strip(thr[w].payload),
                          Handled(thr, w, "applied"))
       ELSE /\ thr' = Handled(thr, w, "empty")
            /\ App_workers' = App_workers \ {w}
            /\ UNCHANGED questions
    /\ prog' = prog \ {w}
    /\ UNCHANGED <<unit_title, level, btn_generate, preview_visible,
                   title_edit, pm, scaled, png, render_timers, ops>>
    /\ SFrame

\* regen_single.fail(msg)
Single_fail(w) ==
    /\ Delivering(w, "single", "err")
    /\ sigq' = Tail(sigq)
    /\ prog' = prog \ {w}
    /\ App_workers' = App_workers \ {w}
    /\ thr' = Handled(thr, w, "error_box")
    /\ UNCHANGED <<questions, unit_title, level, btn_generate,
                   preview_visible, title_edit, pm, scaled, png, render_timers, ops>>
    /\ SFrame

\* regen_single.cancel()
Single_cancel(w) ==
    /\ UserOp
    /\ w \in prog /\ thr[w].kind = "single"
    /\ thr' = [thr EXCEPT ![w].pc = IF @ = "running" THEN "terminated" ELSE @,
                          ![w].handled = Append(@, "cancelled")]
    /\ prog' = prog \ {w}
    /\ App_workers' = App_workers \ {w}
    /\ UNCHANGED <<questions, unit_title, level, sigq, btn_generate,
                   preview_visible, title_edit, pm, scaled, png, render_timers>>
    /\ SFrame

\* ------------------------------------------------------------------- OCR
upload_document_for_ocr ==
    /\ NoModal
    /\ UserOp
    /\ FreeIds # {}
    /\ prog' = prog \cup {NewId}
    /\ thr' = [thr EXCEPT ![NewId] = NewThread("ocr", <<>>, -1)]
    /\ UNCHANGED <<questions, unit_title, level, App_workers, sigq,
                   btn_generate, preview_visible, title_edit, pm, scaled, png,
                   render_timers>>
    /\ SFrame

\* OCRWorker.run: title is what extract_topics_from_text returned; failed:
\* no OCR library, no text extracted, or an exception
OCRWorker_run(w, title, failed) ==
    /\ thr[w].kind = "ocr" /\ thr[w].pc = "running"
    /\ IF failed THEN Emit(w, <<"error">>, <<>>)
                 ELSE Emit(w, <<"finished">>, title)
    /\ UNCHANGED <<questions, unit_title, level, App_workers, prog,
                   btn_generate, preview_visible, title_edit, pm, scaled, png,
                   render_timers, ops>>
    /\ SFrame

\* App.on_ocr_finished; title_edit.setText emits textChanged only for a new
\* text, and on_title_changed then strips it
on_ocr_finished(w) ==
    /\ Delivering(w, "ocr", "finished")
    /\ sigq' = Tail(sigq)
    /\ prog' = prog \ {w}
    /\ title_edit' = thr[w].payload
    /\ unit_title' = IF thr[w].payload # title_edit
                     THEN strip(thr[w].payload) ELSE thr[w].payload
    /\ SimplePreview_clear
    /\ thr' = Handled(thr, w, "ocr_applied")
    /\ UNCHANGED <<questions, level, App_workers, btn_generate,
                   preview_visible, png, render_timers, ops>>
    /\ SFrame

on_ocr_error(w) ==
    /\ Delivering(w, "ocr", "error")
    /\ sigq' = Tail(sigq)
    /\ prog' = prog \ {w}
    /\ thr' = Handled(thr, w, "error_box")
    /\ UNCHANGED <<questions, unit_title, level, App_workers, btn_generate,
                   preview_visible, title_edit, pm, scaled, png, render_timers, ops>>
    /\ SFrame

\* ----------------------------------------------------------- the session
SNext ==
    \/ \E txt \in TitleTexts : on_title_changed(txt)
    \/ \E lvl \in LevelChoices : on_level_changed(lvl)
    \/ \E idx \in EditIdx, t \in EditTexts : RowEdited(idx, t)
    \/ render_exact_now
    \/ resizeEvent
    \/ render_timer_fires
    \/ \E w \in Threads, o \in PreviewOutcomes : PreviewWorker_run(w, o)
    \/ \E w \in Threads : Preview_on_done(w)
    \/ \E w \in Threads : Preview_on_fail(w)
    \/ \E t \in TopicsTexts : generate_with_gemini(t)
    \/ \E w \in Threads, text \in ResponseTexts, f \in BOOLEAN :
           GeminiBatchWorker_run(w, text, f)
    \/ \E w \in Threads : Batch_done(w)
    \/ \E w \in Threads : Batch_fail(w)
    \/ \E w \in Threads : Batch_cancel(w)
    \/ \E idx \in EditIdx, t \in TopicsTexts : regen_single(idx, t)
    \/ \E w \in Threads, text \in SingleTexts, f \in BOOLEAN :
           GeminiSingleWorker_run(w, text, f)
    \/ \E w \in Threads : Single_done(w)
    \/ \E w \in Threads : Single_fail(w)
    \/ \E w \in Threads : Single_cancel(w)
    \/ upload_document_for_ocr
    \/ \E w \in Threads, t \in OcrTitles, f \in BOOLEAN : OCRWorker_run(w, t, f)
    \/ \E w \in Threads : on_ocr_finished(w)
    \/ \E w \in Threads : on_ocr_error(w)


\* ======================================================================
\* Updater
\* ======================================================================
Digits == {"0", "1", "2", "3", "4", "5", "6", "7", "8", "9"}

DigitVal(c) ==
    CASE c = "0" -> 0 [] c = "1" -> 1 [] c = "2" -> 2 [] c = "3" -> 3
      [] c = "4" -> 4 [] c = "5" -> 5 [] c = "6" -> 6 [] c = "7" -> 7
      [] c = "8" -> 8 [] c = "9" -> 9

\* re.findall(r"\d", v): every digit a match of its own
RECURSIVE digit_runs_each_digit(_, _, _)
digit_runs_each_digit(v, cur, in_run) ==
    IF v = <<>> THEN <<>>
    ELSE IF Head(v) \in Digits
         THEN <<DigitVal(Head(v))>> \o digit_runs_each_digit(Tail(v), 0, FALSE)
         ELSE digit_runs_each_digit(Tail(v), 0, FALSE)

\* re.findall(r"\d+", v) with int() applied to every match: scan v left to
\* right; cur is the value of the digit run being read, in_run tells whether
\* one is open
RECURSIVE digit_runs(_, _, _)
digit_runs(v, cur, in_run) ==
    IF v = <<>>
    THEN IF in_run THEN <<cur>> ELSE <<>>
    ELSE IF Head(v) \in Digits
         THEN digit_runs(Tail(v), (IF in_run THEN cur * 10 ELSE 0) + DigitVal(Head(v)), TRUE)
         ELSE (IF in_run THEN <<cur>> ELSE <<>>) \o digit_runs(Tail(v), 0, FALSE)

\* tuple(nums) or (0,), with nums taken from (v or "0")
version_tuple(v) ==
    LET src  == IF v = NoneVal \/ v = <<>> THEN <<"0">> ELSE v
        nums == digit_runs(src, 0, FALSE)
    IN  IF nums = <<>> THEN <<0>> ELSE nums

\* Python's < on tuples of ints
RECURSIVE tuple_lt(_, _)
tuple_lt(a, b) ==
    IF b = <<>> THEN FALSE
    ELSE IF a = <<>> THEN TRUE
    ELSE IF Head(a) # Head(b) THEN Head(a) < Head(b)
    ELSE tuple_lt(Tail(a), Tail(b))

tuple_gt(a, b) == tuple_lt(b, a)
\* < written where <= is meant
tuple_le_strict(a, b) == tuple_lt(a, b)
tuple_le(a, b) == a = b \/ tuple_lt(a, b)

\* src/3.py:103
APP_VERSION == <<"0", ".", "2", "3", " ", "B", "E", "T", "A">>

\* str.lower() on a hex digest
Lower(h) == IF h = <<"AB">> THEN <<"ab">> ELSE h

\* manifest.json as fetched: version and sha256 (NoneVal: field absent)
Manifests ==
    { [version |-> <<"1", ".", "0">>,      sha256 |-> <<"AB">>],
      [version |-> <<"1", ".", "0">>,      sha256 |-> NoneVal],
      [version |-> <<"0", ".", "2", "3">>, sha256 |-> <<"ab">>],
      [version |-> <<"0", ".", "9">>,      sha256 |-> <<"ab">>],
      [version |-> NoneVal,                sha256 |-> <<"ab">>] }

\* sha256_of_file of what the download wrote
FileDigests == { <<"ab">>, <<"ee">> }

\* m.get("version", "0")
get_version(m) == IF m.version = NoneVal THEN <<"0">> ELSE m.version

\* how begin_update_replace ends: the replacement is launched and the app
\* exits, or the copy raises
ReplaceOutcomes == {"replaced", "copy_failed"}

\* the updater before its first use, on one of the platforms in nt, with the
\* lock file of another attempt present or not as in locks
UStart(locks, nt) ==
    /\ UPDATE_IN_PROGRESS = FALSE
    /\ ustack = <<>>
    /\ notifq = <<>>
    /\ dls = <<>>
    /\ fetches = 0
    /\ lock_file \in locks
    /\ replaced = <<>>
    /\ exited = FALSE
    /\ os_nt \in nt

UInit == UStart(BOOLEAN, BOOLEAN)

\* the _ProgressDialog of a download is open, modal over the main window
Downloading == \E i \in 1..Len(dls) : dls[i].dlg

\* input to a window under n open update dialogs is blocked: a visible
\* _ProgressDialog (setModal(True), shown with show()) blocks every window
\* that was opened before it
Blocked(n) == \E i \in 1..Len(dls) : dls[i].dlg /\ n <= dls[i].depth

\* BackgroundUpdateChecker.run: App's periodic checker (src = "app") or the
\* one an AboutDialog starts (src = "about"); ok = FALSE: fetch_manifest raised
BackgroundUpdateChecker_run(src, m, ok) ==
    /\ ~exited
    /\ fetches < MaxFetches
    /\ fetches' = fetches + 1
    /\ notifq' = IF ok /\ tuple_gt(version_tuple(get_version(m)), version_tuple(APP_VERSION))
                 THEN Append(notifq, [src |-> src, m |-> m])
                 ELSE notifq
    /\ UNCHANGED <<UPDATE_IN_PROGRESS, ustack, dls, lock_file, replaced, exited, os_nt>>
    /\ UFrame

\* App.on_update_available / AboutDialog.on_update_available up to exec_()
on_update_available ==
    /\ ~exited
    /\ notifq # <<>>
    /\ notifq' = Tail(notifq)
    /\ ustack' = Append(ustack, [fn |-> Head(notifq).src, m |-> Head(notifq).m,
                                 flag_at_open |-> UPDATE_IN_PROGRESS])
    /\ UNCHANGED <<UPDATE_IN_PROGRESS, dls, fetches, lock_file, replaced, exited, os_nt>>
    /\ UFrame

Top == ustack[Len(ustack)]
Pop == SubSeq(ustack, 1, Len(ustack) - 1)

\* "Later" on the innermost dialog
dialog_rejected ==
    /\ ~exited
    /\ ustack # <<>> /\ ~Blocked(Len(ustack))
    /\ ustack' = Pop
    /\ UNCHANGED <<UPDATE_IN_PROGRESS, notifq, dls, fetches, lock_file, replaced, exited, os_nt>>
    /\ UFrame

\* check_for_updates up to update_dialog.exec_(), entered with dialog stack st
check_for_updates(st, m, ok) ==
    IF UPDATE_IN_PROGRESS
    THEN UNCHANGED <<UPDATE_IN_PROGRESS, fetches>> /\ ustack' = st
    ELSE /\ fetches < MaxFetches
         /\ fetches' = fetches + 1
         /\ IF ~ok
            THEN UPDATE_IN_PROGRESS' = FALSE /\ ustack' = st
            ELSE /\ UNCHANGED UPDATE_IN_PROGRESS
                 /\ IF tuple_le(version_tuple(get_version(m)), version_tuple(APP_VERSION))
                    THEN ustack' = st
                    ELSE ustack' = Append(st, [fn |-> "check", m |-> m,
                                               flag_at_open |-> UPDATE_IN_PROGRESS])

\* the About dialog's "Check for Updates" button
about_check_clicked(m, ok) ==
    /\ ~exited
    /\ ustack = <<>> /\ ~Downloading
    /\ check_for_updates(ustack, m, ok)
    /\ UNCHANGED <<notifq, dls, lock_file, replaced, exited, os_nt>>
    /\ UFrame

\* "Update Now" on a dialog opened by on_update_available / show_update_dialog
notification_accepted(m, ok) ==
    /\ ~exited
    /\ ustack # <<>> /\ Top.fn \in {"app", "about"} /\ ~Blocked(Len(ustack))
    /\ check_for_updates(Pop, m, ok)
    /\ UNCHANGED <<notifq, dls, lock_file, replaced, exited, os_nt>>
    /\ UFrame

\* "Update Now" on the dialog opened by check_for_updates: the rest of
\* check_for_updates
check_accepted ==
    /\ ~exited
    /\ ustack # <<>> /\ Top.fn = "check" /\ ~Blocked(Len(ustack))
    /\ ustack' = Pop
    /\ UPDATE_IN_PROGRESS' = TRUE
    /\ dls' = Append(dls, [pc |-> "running", m |-> Top.m, got |-> <<>>,
                           dlg |-> TRUE, depth |-> Len(Pop)])
    /\ UNCHANGED <<notifq, fetches, lock_file, replaced, exited, os_nt>>
    /\ UFrame

\* Escape on the _ProgressDialog of download i: QDialog.reject() hides it,
\* the download goes on
progress_rejected(i) ==
    /\ ~exited
    /\ i \in 1..Len(dls) /\ dls[i].dlg
    /\ Len(ustack) <= dls[i].depth
    /\ \A j \in (i + 1)..Len(dls) : ~dls[j].dlg
    /\ dls' = [dls EXCEPT ![i].dlg = FALSE]
    /\ UNCHANGED <<UPDATE_IN_PROGRESS, ustack, notifq, fetches, lock_file, replaced, exited, os_nt>>
    /\ UFrame

\* _Downloader.run
Downloader_run(i, got, ok) ==
    /\ ~exited
    /\ i \in 1..Len(dls) /\ dls[i].pc = "running"
    /\ dls' = [dls EXCEPT ![i].pc = IF ok THEN "done" ELSE "err",
                          ![i].got = IF ok THEN got ELSE <<>>]
    /\ UNCHANGED <<UPDATE_IN_PROGRESS, ustack, notifq, fetches, lock_file, replaced, exited, os_nt>>
    /\ UFrame

\* begin_update_replace(path, target) for the download i
begin_update_replace(i, outcome) ==
    IF os_nt
    THEN IF lock_file
         THEN \* warning box, return; the finally clause removes the lock
              /\ lock_file' = FALSE
              /\ dls' = [dls EXCEPT ![i].pc = "lock_found", ![i].dlg = FALSE]
              /\ UNCHANGED <<UPDATE_IN_PROGRESS, replaced, exited>>
         ELSE IF outcome = "replaced"
              THEN \* lock written, .new copied, script launched, sys.exit:
                   \* the finally clause removes the lock on the way out
                   /\ lock_file' = FALSE
                   /\ replaced' = Append(replaced, i)
                   /\ exited' = TRUE
                   /\ dls' = [dls EXCEPT ![i].pc = "replacing", ![i].dlg = FALSE]
                   /\ UNCHANGED UPDATE_IN_PROGRESS
              ELSE /\ lock_file' = FALSE
                   /\ UPDATE_IN_PROGRESS' = FALSE
                   /\ dls' = [dls EXCEPT ![i].pc = "replace_failed", ![i].dlg = FALSE]
                   /\ UNCHANGED <<replaced, exited>>
    ELSE IF outcome = "replaced"
         THEN /\ replaced' = Append(replaced, i)
              /\ exited' = TRUE
              /\ dls' = [dls EXCEPT ![i].pc = "replacing", ![i].dlg = FALSE]
              /\ UNCHANGED <<UPDATE_IN_PROGRESS, lock_file>>
         ELSE /\ UPDATE_IN_PROGRESS' = FALSE
              /\ dls' = [dls EXCEPT ![i].pc = "replace_failed", ![i].dlg = FALSE]
              /\ UNCHANGED <<lock_file, replaced, exited>>

\* sha is truthy
Truthy(x) == x # NoneVal /\ x # <<>>

\* check_for_updates.on_done(path).  The assignment UPDATE_IN_PROGRESS = False
\* in this nested function binds a local name: the module global is not
\* written.
Download_on_done(i, outcome) ==
    /\ ~exited
    /\ i \in 1..Len(dls) /\ dls[i].pc = "done"
    /\ IF Truthy(dls[i].m.sha256) /\ Lower(dls[i].got) # Lower(dls[i].m.sha256)
       THEN /\ dls' = [dls EXCEPT ![i].pc = "mismatch", ![i].dlg = FALSE]
            /\ UNCHANGED <<UPDATE_IN_PROGRESS, lock_file, replaced, exited>>
       ELSE begin_update_replace(i, outcome)
    /\ UNCHANGED <<ustack, notifq, fetches, os_nt>>
    /\ UFrame

\* check_for_updates.on_err(msg): again the assignment binds a local name
Download_on_err(i) ==
    /\ ~exited
    /\ i \in 1..Len(dls) /\ dls[i].pc = "err"
    /\ dls' = [dls EXCEPT ![i].pc = "download_failed", ![i].dlg = FALSE]
    /\ UNCHANGED <<UPDATE_IN_PROGRESS, ustack, notifq, fetches, lock_file, replaced, exited, os_nt>>
    /\ UFrame

UNext ==
    \/ \E src \in {"app", "about"}, m \in Manifests, ok \in BOOLEAN :
           BackgroundUpdateChecker_run(src, m, ok)
    \/ on_update_available
    \/ dialog_rejected
    \/ \E m \in Manifests, ok \in BOOLEAN : about_check_clicked(m, ok)
    \/ \E m \in Manifests, ok \in BOOLEAN : notification_accepted(m, ok)
    \/ check_accepted
    \/ \E i \in 1..MaxFetches : progress_rejected(i)
    \/ \E i \in 1..MaxFetches, got \in FileDigests, ok \in BOOLEAN : Downloader_run(i, got, ok)
    \/ \E i \in 1..MaxFetches, o \in ReplaceOutcomes : Download_on_done(i, o)
    \/ \E i \in 1..MaxFetches : Download_on_err(i)

\* ======================================================================
\* version_tuple on its own
\* ======================================================================
VerAlphabet == {"0", "1", "2", "3", ".", "b"}

RECURSIVE StringsUpTo(_)
StringsUpTo(n) ==
    IF n = 0 THEN {<<>>}
    ELSE LET S == StringsUpTo(n - 1)
         IN  S \cup {Append(s, c) : s \in {t \in S : Len(t) = n - 1}, c \in VerAlphabet}

\* version strings as they occur, and the absent one
SampleVersions ==
    { NoneVal, <<>>, <<"b">>, <<"1">>, <<"1", ".", "0">>, <<"0", ".", "2", "3">>,
      <<"0", ".", "9">>, <<"1", "0">>, <<"1", ".", "0", ".", "1">>, APP_VERSION }

VerStrings == StringsUpTo(MaxVerLen) \cup SampleVersions

Unset == <<-1>>

VStart(A, B) ==
    /\ va \in A /\ vb \in B
    /\ ta = Unset /\ tb = Unset

VInit == VStart(VerStrings, SampleVersions)

\* the two calls of version_tuple in a comparison
compare_versions ==
    /\ ta = Unset
    /\ ta' = version_tuple(va)
    /\ tb' = version_tuple(vb)
    /\ UNCHANGED <<va, vb>>
    /\ VFrame

\* ======================================================================
\* Functions called on their own
\* ======================================================================
\* ret before the call; afterwards ret = <<value returned>>
Pending == <<>>

\* no function is being called
NoCall == fn = "none" /\ arg = <<>> /\ ret = Pending

\* lines a reply can contain: numbered, numbered with ")", bulleted, bare,
\* numbered without a space, without "?", quoted and indented, two markers
\* in one line, empty
ParseLines ==
    { <<"1", ".", " ", "a", "?">>,
      <<"2", ")", " ", "A", "?">>,
      <<"-", " ", "b", "?">>,
      <<"a", "?">>,
      <<"1", ".", "a", "?">>,
      <<"1", ".", " ", "a">>,
      <<" ", "1", "2", ".", " ", " ", "\"", "b", "\"", "?", " ">>,
      <<"x", " ", "3", ".", " ", "b", "?", " ", "4", ")", " ", "c", "?">>,
      <<>> }

\* all sequences of at most n elements of S
RECURSIVE SeqsUpTo(_, _)
SeqsUpTo(S, n) ==
    IF n = 0 THEN {<<>>}
    ELSE LET R == SeqsUpTo(S, n - 1)
         IN  R \cup {Append(r, x) : r \in {t \in R : Len(t) = n - 1}, x \in S}

ParseTexts == {join_nl(ls) : ls \in SeqsUpTo(ParseLines, MaxLines)}

ParseArgs == {<<t, n>> : t \in ParseTexts, n \in 0..MaxItems}

\* parse_numbered_questions(text, max_items), both implementations
ParseCall ==
    /\ fn = "parse_numbered_questions" /\ ret = Pending
    /\ ret' = << [single |-> parse_numbered_questions(arg[1], arg[2]),
                  pkg    |-> pkg_parse_numbered_questions(arg[1], arg[2])] >>
    /\ UNCHANGED <<fn, arg>>
    /\ CFrame

\* entries of a list handed to _ensure_15: None, empty, blank, a word, a text
\* with whitespace runs
EnsureEntries ==
    { NoneVal, <<>>, <<" ">>, <<"a">>, <<" ", "a", " ", " ", "b", "\t">> }

\* k questions q1 .. qk
ManyQs(k) == [i \in 1..k |-> <<"q", ToString(i), "?">>]

\* short lists, and the same followed by 13 to 16 questions
EnsureArgs ==
    { <<p \o ManyQs(k)>> : p \in SeqsUpTo(EnsureEntries, MaxList),
                           k \in {0, 13, 14, 15, 16} }

\* _ensure_15(qs), and _ensure_15 of its result
EnsureCall ==
    /\ fn = "_ensure_15" /\ ret = Pending
    /\ ret' = << [once  |-> _ensure_15(arg[1]),
                  twice |-> _ensure_15(_ensure_15(arg[1]))] >>
    /\ UNCHANGED <<fn, arg>>
    /\ CFrame

\* GeminiBatchWorker.run from the reply text to the emitted list
BatchResultCall ==
    /\ fn = "batch_result" /\ ret = Pending
    /\ ret' = <<batch_result(arg[1])>>
    /\ UNCHANGED <<fn, arg>>
    /\ CFrame

\* ------------------------------------------------------------------ fmt
\* t.format(**kw) raised
FormatError == <<"<raised>">>

\* str.format(**kw) on the rest s of a template, out being what is written
\* so far: "{{" and "}}" are literal braces, "{" key "}" is kw[key], anything
\* else with a brace raises (ValueError, KeyError, IndexError)
RECURSIVE format(_, _, _)
format(s, kw, out) ==
    IF s = <<>> THEN out
    ELSE IF Head(s) = "{"
    THEN IF Len(s) >= 2 /\ s[2] = "{" THEN format(Drop(s, 2), kw, Append(out, "{"))
         ELSE LET n == span_len(Tail(s), {"}"})
                  field == SubSeq(s, 2, n + 1)
              IN  IF n + 1 = Len(s) THEN FormatError
                  ELSE IF Len(field) = 1 /\ field[1] \in DOMAIN kw
                       THEN format(Drop(s, n + 2), kw, out \o kw[field[1]])
                       ELSE FormatError
    ELSE IF Head(s) = "}"
    THEN IF Len(s) >= 2 /\ s[2] = "}" THEN format(Drop(s, 2), kw, Append(out, "}"))
         ELSE FormatError
    ELSE format(Tail(s), kw, Append(out, Head(s)))

\* fmt without its try
fmt_uncaught(t, kw) == format(t, kw, <<>>)

\* fmt(t, **kw)
fmt(t, kw) ==
    LET result == format(t, kw, <<>>)
    IN  IF result = FormatError THEN t ELSE result

\* templates: all sequences of up to MaxTemplate of these tokens
TemplateTokens == {"{", "}", "name", "level", "Hello"}

\* keyword arguments: none, one, both, and a value with braces in it
KwChoices ==
    { [k \in {} |-> <<>>],
      [k \in {"name"} |-> <<"John">>],
      [k \in {"name", "level"} |-> IF k = "name" THEN <<"John">> ELSE <<"B2">>],
      [k \in {"name"} |-> <<"{", "level", "}">>] }

FmtCall ==
    /\ fn = "fmt" /\ ret = Pending
    /\ ret' = <<fmt(arg[1], arg[2])>>
    /\ UNCHANGED <<fn, arg>>
    /\ CFrame

\* ------------------------------------------------------- the document
\* A document is a sequence of paragraphs, a paragraph a sequence of runs, a
\* run a text.  "LOOKING BACK" and "Discussion" are single tokens.

\* s.replace(pat, rep)
RECURSIVE replace(_, _, _)
replace(s, pat, rep) ==
    IF Len(s) < Len(pat) THEN s
    ELSE IF SubSeq(s, 1, Len(pat)) = pat
         THEN rep \o replace(Drop(s, Len(pat)), pat, rep)
         ELSE <<Head(s)>> \o replace(Tail(s), pat, rep)

\* paragraph.text: the runs' texts joined
RECURSIVE p_text(_)
p_text(p) == IF p = <<>> THEN <<>> ELSE Head(p) \o p_text(Tail(p))

LOOKING_BACK == <<"LOOKING BACK">>

\* the title loop over one paragraph
title_in_paragraph(p, title) ==
    IF contains(p_text(p), LOOKING_BACK)
    THEN [i \in 1..Len(p) |->
             IF contains(p[i], LOOKING_BACK)
             THEN replace(p[i], LOOKING_BACK, title) ELSE p[i]]
    ELSE p

\* export_docx: for tok in LEVEL_TOKENS: if tok in txt: replace; break
RECURSIVE level_first_token(_, _, _)
level_first_token(txt, toks, lvl) ==
    IF toks = <<>> THEN txt
    ELSE IF contains(txt, Head(toks)) THEN replace(txt, Head(toks), lvl)
         ELSE level_first_token(txt, Tail(toks), lvl)

\* PreviewWorker: for tok in LEVEL_TOKENS: if tok in txt: txt = replace
RECURSIVE level_every_token(_, _, _)
level_every_token(txt, toks, lvl) ==
    IF toks = <<>> THEN txt
    ELSE level_every_token(
             IF contains(txt, Head(toks)) THEN replace(txt, Head(toks), lvl)
             ELSE txt,
             Tail(toks), lvl)

\* export_docx / export_pdf: title and lvl loops over every paragraph
export_replace(doc, title, lvl) ==
    [j \in 1..Len(doc) |->
        LET p == title_in_paragraph(doc[j], title)
        IN  [i \in 1..Len(p) |-> level_first_token(p[i], LEVEL_TOKENS, lvl)]]

\* PreviewWorker._replace_level_and_title: paragraphs[:idx_disc + 1] only
\* (idx_disc is 1-based here)
_replace_level_and_title(doc, idx_disc, title, lvl) ==
    [j \in 1..Len(doc) |->
        IF j <= idx_disc
        THEN LET p == title_in_paragraph(doc[j], title)
             IN  [i \in 1..Len(p) |-> level_every_token(p[i], LEVEL_TOKENS, lvl)]
        ELSE doc[j]]

\* index of the first paragraph whose stripped text is "Discussion", 0: none
find_discussion(doc) ==
    LET D == {j \in 1..Len(doc) : strip(p_text(doc[j])) = <<"Discussion">>}
    IN  IF D = {} THEN 0 ELSE CHOOSE j \in D : \A k \in D : j <= k

\* re.match(r'^\s*(1(\.|\))\s+)', t): group 1, or NoMatch
first_number_prefix(t) ==
    LET w == run_len(t, WS)
        r == Drop(t, w)
        g == run_len(Drop(r, 2), WS)
    IN  IF Len(r) >= 2 /\ r[1] = "1" /\ r[2] \in {".", ")"} /\ g >= 1
        THEN SubSeq(r, 1, 2 + g) ELSE NoMatch

\* the paragraphs kept, and the fifteen question paragraphs added after them
with_questions(doc, idx_disc, qs) ==
    LET F == {j \in (idx_disc + 1)..Len(doc) :
                 first_number_prefix(p_text(doc[j])) # NoMatch}
        idx_first_q == IF F = {} THEN 0 ELSE CHOOSE j \in F : \A k \in F : j <= k
        prefix_example == IF idx_first_q = 0 THEN <<"1", ".", " ">>
                          ELSE first_number_prefix(p_text(doc[idx_first_q]))
        dot_or_paren == IF contains(prefix_example, <<".", " ">>) THEN "." ELSE ")"
        after == IF prefix_example[2] = dot_or_paren
                 THEN Drop(prefix_example, 2) ELSE <<>>
        space_part == IF after = <<>> THEN <<" ">> ELSE after
        kept == SubSeq(doc, 1, IF idx_first_q = 0 THEN idx_disc ELSE idx_first_q - 1)
    IN  kept \o [i \in 1..Len(qs) |->
                    << <<ToString(i), dot_or_paren>> \o space_part \o qs[i] >>]

\* no document: nothing was written (a written document has paragraphs)
NoFile == <<>>

\* App.export_docx with a path chosen, python-docx importable and the
\* template file present: the message box shown, the file at the chosen path,
\* and the session fields afterwards
export_docx(template, title, lvl, qs) ==
    LET doc      == export_replace(template, title, lvl)
        idx_disc == find_discussion(doc)
        same     == [questions |-> qs, unit_title |-> title, level |-> lvl]
    IN  IF strip(title) = <<>>
        THEN [shown |-> "warning", file |-> NoFile, session |-> same]
        ELSE IF idx_disc = 0
        THEN [shown |-> "error", file |-> NoFile, session |-> same]
        ELSE [shown |-> "saved",
              file |-> with_questions(doc, idx_disc, _ensure_15(qs)),
              session |-> same]

\* PreviewWorker.run up to doc.save(tmp_docx): the document, or NoFile when
\* the marker is missing
preview_docx(template, title, lvl, qs) ==
    LET idx_disc == find_discussion(template)
    IN  IF idx_disc = 0 THEN NoFile
        ELSE with_questions(_replace_level_and_title(template, idx_disc, title, lvl),
                            idx_disc, qs)

\* templates: the usual layout; no marker; no marker and no placeholder;
\* title and level in one run, an indented marker, nothing numbered after
\* it; the placeholder in a second run, "1)" numbering after other text
Templates ==
    { << << <<"B", "2">> >>, << <<"LOOKING BACK">> >>, << <<"Discussion">> >>,
         << <<"1", ".", " ", "old", "?">> >>, << <<"2", ".", " ", "old", "?">> >> >>,
      << << <<"LOOKING BACK">> >>, << <<"B", "2", " ", "x">> >> >>,
      << << <<"x">> >> >>,
      << << <<"LOOKING BACK", " ", "B", "1", "+">> >>, << <<" ", "Discussion", " ">> >>,
         << <<"A", "1", " ", "x">> >> >>,
      << << <<"Unit", " ">>, <<"LOOKING BACK">> >>, << <<"Discussion">> >>,
         << <<"x">> >>, << <<"1", ")", " ", " ", "old">> >> >> }

\* unit titles: plain, the marker word, with a level token, a level token
\* alone, empty, blank
DocTitles ==
    { <<"T">>, <<"Discussion">>, <<"B", "2", " ", "T">>, <<"A", "1">>, <<>>, <<" ">> }

DocLevels == { LEVEL_TOKENS[5], LEVEL_TOKENS[1], LEVEL_TOKENS[4] }

DocQuestions == { InitialQuestions, ManyQs(15) }

DocArgs ==
    { <<t, u, l, q>> : t \in Templates, u \in DocTitles, l \in DocLevels,
                       q \in DocQuestions }

ExportDocxCall ==
    /\ fn = "export_docx" /\ ret = Pending
    /\ ret' = <<export_docx(arg[1], arg[2], arg[3], arg[4])>>
    /\ UNCHANGED <<fn, arg>>
    /\ CFrame

\* ------------------------------------------------------ PDF conversion
\* the converters: _reportlab_to_pdf, _docx2pdf_to_pdf, _word_com_to_pdf,
\* _soffice_to_pdf
Converters == {"reportlab", "docx2pdf", "word_com", "libreoffice"}

\* convert_docx_to_pdf, given the set of converters that would succeed: the
\* converters it calls, in order, and whether it raises
convert_docx_to_pdf(works) ==
    IF "reportlab" \in works
    THEN [tried |-> <<"reportlab">>, raised |-> FALSE]
    ELSE IF "docx2pdf" \in works
         THEN [tried |-> <<"reportlab", "docx2pdf">>, raised |-> FALSE]
         ELSE [tried |-> <<"reportlab", "docx2pdf">>, raised |-> TRUE]

\* convert_docx_to_pdf_with_method
convert_docx_to_pdf_with_method(method, works) ==
    IF method = "auto" THEN convert_docx_to_pdf(works)
    ELSE IF method \in Converters
         THEN [tried |-> <<method>>, raised |-> method \notin works]
         ELSE [tried |-> <<>>, raised |-> TRUE]

ConvertCall ==
    /\ fn = "convert_docx_to_pdf" /\ ret = Pending
    /\ ret' = <<convert_docx_to_pdf(arg[1])>>
    /\ UNCHANGED <<fn, arg>>
    /\ CFrame

ConvertWithMethodCall ==
    /\ fn = "convert_docx_to_pdf_with_method" /\ ret = Pending
    /\ ret' = <<convert_docx_to_pdf_with_method(arg[1], arg[2])>>
    /\ UNCHANGED <<fn, arg>>
    /\ CFrame

\* App.export_pdf outside debug mode: export_docx's document saved as
\* tmp_docx, then convert_docx_to_pdf(tmp_docx, path)
export_pdf(template, title, lvl, qs, works) ==
    LET d == export_docx(template, title, lvl, qs)
    IN  IF d.shown # "saved" THEN d
        ELSE IF convert_docx_to_pdf(works).raised
             THEN [d EXCEPT !.shown = "error", !.file = NoFile]
             ELSE d

\* shutil.rmtree(tmpdir, ignore_errors=True): the directory and all in it
rmtree(fs) == {}

\* the handler of the conversion error: os.remove of the three files
remove_previews(fs) == fs \ {"preview.docx", "preview.pdf", "preview.png"}

\* the return on a missing marker: no handler runs
temp_files_marker(created) == created

\* PreviewWorker.run: what is left of tmpdir and its files when run returns
temp_files(outcome) ==
    LET created == {"tmpdir"}
        saved   == created \cup {"preview.docx"}
    IN  CASE outcome = "deps_missing" -> {}
          [] outcome = "no_template"  -> {}
          [] outcome = "no_marker"    -> temp_files_marker(created)
          \* the inner handler removes the files, fitz.open(tmp_pdf) then
          \* raises and the outer handler removes the directory
          [] outcome = "convert_fail" -> rmtree(remove_previews(saved))
          [] outcome = "raster_fail"  -> rmtree(saved \cup {"preview.pdf"})
          [] outcome = "ok"           ->
                 saved \cup {"preview.pdf", "preview.png"}

\* PreviewWorker.run with its imports and the template file present: the
\* signals emitted, the document rendered and the temporary files left
preview_run(template, title, lvl, qs, works, rasterises) ==
    LET doc == preview_docx(template, title, lvl, qs)
        outcome == IF doc = NoFile THEN "no_marker"
                   ELSE IF convert_docx_to_pdf(works).raised THEN "convert_fail"
                   ELSE IF ~rasterises THEN "raster_fail"
                   ELSE "ok"
    IN  [emitted |-> PreviewSignals(outcome),
         shown   |-> IF outcome = "ok" THEN doc ELSE NoFile,
         outcome |-> outcome,
         files   |-> temp_files(outcome)]

\* whether ReportLab works or no converter does
DocConverters == { {"reportlab"}, {} }

ExportPdfCall ==
    /\ fn = "export_pdf" /\ ret = Pending
    /\ ret' = <<export_pdf(arg[1], arg[2], arg[3], arg[4], arg[5])>>
    /\ UNCHANGED <<fn, arg>>
    /\ CFrame

PreviewRunCall ==
    /\ fn = "PreviewWorker.run" /\ ret = Pending
    /\ ret' = <<preview_run(arg[1], arg[2], arg[3], arg[4], arg[5], arg[6])>>
    /\ UNCHANGED <<fn, arg>>
    /\ CFrame

\* ------------------------------------------------------------ content key
\* session contents: a title, a level and fifteen questions, the first two
\* rows edited to short texts that may hold the "|" character
KeyRowTexts == { <<"a", "|", "b">>, <<"c">>, <<"a">>, <<"b", "|", "c">> }

Contents ==
    { [title |-> <<"T">>, level |-> l,
       questions |-> [InitialQuestions EXCEPT ![1] = q1, ![2] = q2]] :
      l \in LevelChoices, q1 \in KeyRowTexts, q2 \in KeyRowTexts }

\* App._content_key for two session contents
ContentKeyCall ==
    /\ fn = "_content_key" /\ ret = Pending
    /\ ret' = << [k1 |-> key_of(arg[1].title, arg[1].level, arg[1].questions),
                  k2 |-> key_of(arg[2].title, arg[2].level, arg[2].questions)] >>
    /\ UNCHANGED <<fn, arg>>
    /\ CFrame

\* ----------------------------------------------------- preview and export
\* question lists of a session: the placeholders; row 3 edited to the empty
\* string; row 1 edited to a text with two spaces in a row
SessionQuestions ==
    { InitialQuestions,
      [InitialQuestions EXCEPT ![3] = <<>>],
      [InitialQuestions EXCEPT ![1] = <<"a", " ", " ", "b", "?">>] }

\* the paragraphs added by the "for i, q in enumerate(...)" loop: the last n
\* of the document
added_paragraphs(file, n) == SubSeq(file, Len(file) - n + 1, Len(file))

\* PreviewWorker.run and App.export_docx on the same session state
PreviewAndExportCall ==
    /\ fn = "PreviewWorker.run, export_docx" /\ ret = Pending
    /\ ret' = << [preview |-> preview_docx(arg[1], arg[2], arg[3], arg[4]),
                  export  |-> export_docx(arg[1], arg[2], arg[3], arg[4]).file] >>
    /\ UNCHANGED <<fn, arg>>
    /\ CFrame

\* ------------------------------------------------------ single regeneration
\* reply texts: the parser's samples, the batch replies, whitespace only, a
\* sentence, a line with trailing blanks before a second line, punctuation
\* only
SingleReplies ==
    ParseTexts \cup ResponseTexts \cup
    { <<" ", "\n", " ">>, <<"a", " ", "b", ".">>,
      <<"a", "?", " ", "\n", "b">>, <<".", "!">>, <<"\n", "a">> }

\* GeminiSingleWorker.run from the reply text to the emitted signal
SingleResultCall ==
    /\ fn = "GeminiSingleWorker.run" /\ ret = Pending
    /\ ret' = <<single_result(arg[1])>>
    /\ UNCHANGED <<fn, arg>>
    /\ CFrame

\* --------------------------------------------------------- topic extraction
\* str.split(): the runs of non-whitespace characters
RECURSIVE split_ws(_)
split_ws(s) ==
    LET r == lstrip(s)
        k == span_len(r, WS)
    IN  IF r = <<>> THEN <<>> ELSE <<SubSeq(r, 1, k)>> \o split_ws(Drop(r, k))

\* s.split(c)
RECURSIVE split_on(_, _)
split_on(s, c) ==
    LET k == span_len(s, {c})
    IN  IF k = Len(s) THEN <<s>>
        ELSE <<SubSeq(s, 1, k)>> \o split_on(Drop(s, k + 1), c)

\* s.replace(tok, '') for a one-token tok
without(s, tok) == SelectSeq(s, LAMBDA c : c # tok)

\* topics_text: "* topic\n" for each topic, then strip()
RECURSIVE topic_lines(_)
topic_lines(topics) ==
    IF topics = <<>> THEN <<>>
    ELSE <<"*", " ">> \o Head(topics) \o <<"\n">> \o topic_lines(Tail(topics))

\* [v.strip() for v in vocab_text.split(',') if v.strip()]
RECURSIVE stripped_nonblank(_)
stripped_nonblank(vs) ==
    IF vs = <<>> THEN <<>>
    ELSE (IF strip(Head(vs)) # <<>> THEN <<strip(Head(vs))>> ELSE <<>>)
         \o stripped_nonblank(Tail(vs))

\* the loop over the lines of a reply: acc is <<title, topics, vocab>>
RECURSIVE scan_reply(_, _)
scan_reply(lines, acc) ==
    IF lines = <<>> THEN acc
    ELSE LET line == strip(Head(lines))
             nxt  == IF line = <<>> THEN acc
                     ELSE IF Head(line) = "UNIT_TITLE:"
                     THEN <<strip(without(line, "UNIT_TITLE:")), acc[2], acc[3]>>
                     ELSE IF Head(line) = "*"
                     THEN <<acc[1], Append(acc[2], strip(Tail(line))), acc[3]>>
                     ELSE IF Head(line) = "VOCAB:"
                     THEN <<acc[1], acc[2],
                            stripped_nonblank(split_on(strip(without(line, "VOCAB:")), ","))>>
                     ELSE acc
         IN  scan_reply(Tail(lines), nxt)

\* the parsing shared by extract_topics_from_text and
\* extract_topics_http_fallback: the triple returned for a reply text
parse_reply(reply, title) ==
    LET r == scan_reply(split_nl(reply), <<title, <<>>, <<>>>>)
    IN  <<r[1], strip(topic_lines(r[2])), r[3]>>

\* extract_topics_simple_fallback: the keyword lists, in the order tested
TOPIC_KEYWORDS ==
    << { <<"f", "o", "o", "d">>, <<"e", "a", "t">>,
         <<"r", "e", "s", "t", "a", "u", "r", "a", "n", "t">>,
         <<"c", "o", "o", "k", "i", "n", "g">>, <<"m", "e", "a", "l">> },
       { <<"t", "r", "a", "v", "e", "l">>, <<"t", "r", "i", "p">>,
         <<"v", "a", "c", "a", "t", "i", "o", "n">>,
         <<"v", "i", "s", "i", "t">>,
         <<"j", "o", "u", "r", "n", "e", "y">> },
       { <<"w", "o", "r", "k">>, <<"j", "o", "b">>,
         <<"c", "a", "r", "e", "e", "r">>,
         <<"o", "f", "f", "i", "c", "e">>,
         <<"b", "u", "s", "i", "n", "e", "s", "s">> },
       { <<"f", "a", "m", "i", "l", "y">>,
         <<"p", "a", "r", "e", "n", "t">>, <<"c", "h", "i", "l", "d">>,
         <<"m", "o", "t", "h", "e", "r">>,
         <<"f", "a", "t", "h", "e", "r">> },
       { <<"s", "p", "o", "r", "t">>, <<"m", "u", "s", "i", "c">>,
         <<"m", "o", "v", "i", "e">>, <<"b", "o", "o", "k">>,
         <<"g", "a", "m", "e">> } >>

\* extract_topics_simple_fallback: the topics of each keyword list, and last
\* those of the else branch
FALLBACK_TOPICS ==
    << << <<"Favorite foods">>, <<"Cooking and recipes">>, <<"Restaurant experiences">> >>,
       << <<"Travel experiences">>, <<"Dream destinations">>, <<"Travel planning">> >>,
       << <<"Work and jobs">>, <<"Career goals">>, <<"Work-life balance">> >>,
       << <<"Family relationships">>, <<"Family traditions">>, <<"Childhood memories">> >>,
       << <<"Hobbies and interests">>, <<"Entertainment preferences">>, <<"Free time activities">> >>,
       << <<"Personal experiences">>, <<"Daily life">>, <<"General discussion">> >> >>

\* extract_topics_simple_fallback: common_words
common_words ==
    { <<"t", "h", "e">>, <<"a">>, <<"a", "n">>, <<"a", "n", "d">>,
      <<"o", "r">>, <<"b", "u", "t">>, <<"i", "n">>, <<"o", "n">>,
      <<"a", "t">>, <<"t", "o">>, <<"f", "o", "r">>, <<"o", "f">>,
      <<"w", "i", "t", "h">>, <<"b", "y">>, <<"i", "s">>,
      <<"a", "r", "e">>, <<"w", "a", "s">>, <<"w", "e", "r", "e">>,
      <<"b", "e">>, <<"b", "e", "e", "n">>, <<"h", "a", "v", "e">>,
      <<"h", "a", "s">>, <<"h", "a", "d">>, <<"d", "o">>,
      <<"d", "o", "e", "s">>, <<"d", "i", "d">>, <<"w", "i", "l", "l">>,
      <<"w", "o", "u", "l", "d">>, <<"c", "o", "u", "l", "d">>,
      <<"s", "h", "o", "u", "l", "d">>, <<"m", "a", "y">>,
      <<"m", "i", "g", "h", "t">>, <<"c", "a", "n">>,
      <<"t", "h", "i", "s">>, <<"t", "h", "a", "t">>,
      <<"t", "h", "e", "s", "e">>, <<"t", "h", "o", "s", "e">>, <<"i">>,
      <<"y", "o", "u">>, <<"h", "e">>, <<"s", "h", "e">>, <<"i", "t">>,
      <<"w", "e">>, <<"t", "h", "e", "y">>, <<"m", "e">>,
      <<"h", "i", "m">>, <<"h", "e", "r">>, <<"u", "s">>,
      <<"t", "h", "e", "m">> }

\* OCR texts, character by character: a food text with punctuation; a
\* travel and family text; eleven long words; common and non-alphabetic
\* words only; one word with a keyword inside punctuation
OcrTexts ==
    { <<"W", "e", " ", "e", "a", "t", " ", "F", "o", "o", "d", ",", " ", "d", "a", "i", "l", "y", ".">>,
      <<"a", " ", "t", "r", "i", "p", " ", "w", "i", "t", "h", " ", "f", "a", "m", "i", "l", "y">>,
      <<"A", "p", "p", "l", "e", "s", " ", "b", "a", "n", "a", "n", "a", " ", "c", "h", "e", "r", "r", "y", " ", "d", "a", "t", "e", "s", " ", "e", "l", "d", "e", "r", " ", "f", "i", "g", "s", " ", "g", "r", "a", "p", "e", " ", "h", "o", "n", "e", "y", " ", "i", "r", "i", "s", " ", "j", "e", "l", "l", "y", " ", "k", "i", "w", "i", "s">>,
      <<"t", "h", "e", " ", "a", "n", "d", " ", "o", "f", " ", "b", "2", "b", " ", "(", "t", "h", "a", "t", ")", " ", "a", "b", "c">>,
      <<"B", "o", "o", "k", "s", "!">> }

LETTERS ==
    {"a", "b", "c", "d", "e", "f", "g", "h", "i", "j", "k", "l", "m", "n", "o",
     "p", "q", "r", "s", "t", "u", "v", "w", "x", "y", "z"}

\* str.isalpha() on lower-case text
isalpha(w) == w # <<>> /\ \A i \in 1..Len(w) : w[i] \in LETTERS

PUNCT == {".", ",", "!", "?", ";", ":", "\"", "(", ")", "[", "]", "{", "}"}

\* the vocabulary loop without its break
RECURSIVE vocab_words_unlimited(_, _)
vocab_words_unlimited(words, acc) ==
    IF words = <<>> THEN acc
    ELSE LET word == strip_chars(Head(words), PUNCT)
         IN  IF Len(word) > 3 /\ word \notin common_words /\ isalpha(word)
             THEN vocab_words_unlimited(Tail(words), Append(acc, word))
             ELSE vocab_words_unlimited(Tail(words), acc)

\* the vocabulary loop: long alphabetic words that are not common, at most 8
RECURSIVE vocab_words(_, _)
vocab_words(words, acc) ==
    IF words = <<>> THEN acc
    ELSE LET word == strip_chars(Head(words), PUNCT)
         IN  IF Len(word) > 3 /\ word \notin common_words /\ isalpha(word)
             THEN IF Len(acc) + 1 >= 8 THEN Append(acc, word)
                  ELSE vocab_words(Tail(words), Append(acc, word))
             ELSE vocab_words(Tail(words), acc)

\* extract_topics_simple_fallback(text, unit_title)
extract_topics_simple_fallback(text, title) ==
    LET words == split_ws(lower(text))
        W     == {words[i] : i \in 1..Len(words)}
        hit   == {g \in 1..Len(TOPIC_KEYWORDS) : TOPIC_KEYWORDS[g] \cap W # {}}
        g     == IF hit = {} THEN Len(FALLBACK_TOPICS)
                 ELSE CHOOSE x \in hit : \A y \in hit : x <= y
    IN  <<title, strip(topic_lines(FALLBACK_TOPICS[g])), vocab_words(words, <<>>)>>

\* how a request to the model ends: an exception, a status other than 200,
\* a reply without candidates, or a reply text
Ended(kind) == [kind |-> kind, text |-> <<>>]
Replied(text) == [kind |-> "text", text |-> text]

\* extract_topics_http_fallback(text, unit_title): the methods tried and the
\* triple returned
extract_topics_http_fallback(text, title, http) ==
    IF http.kind = "text"
    THEN [tried |-> <<"http">>, result |-> parse_reply(http.text, title)]
    ELSE [tried  |-> <<"http", "simple">>,
          result |-> extract_topics_simple_fallback(text, title)]

\* extract_topics_from_text(text, unit_title); sdk.kind "unavailable" is
\* GOOGLE_AI_AVAILABLE false
extract_topics_from_text(text, title, sdk, http) ==
    IF strip(OrEmpty(text)) = <<>>
    THEN [tried |-> <<>>, result |-> <<title, <<>>, <<>>>>]
    ELSE IF sdk.kind = "unavailable"
    THEN extract_topics_http_fallback(text, title, http)
    ELSE IF sdk.kind = "text" /\ strip(OrEmpty(sdk.text)) # <<>>
    THEN [tried |-> <<"sdk">>, result |-> parse_reply(strip(sdk.text), title)]
    ELSE LET h == extract_topics_http_fallback(text, title, http)
         IN  [h EXCEPT !.tried = <<"sdk">> \o @]

\* reply texts: the requested format; no marked line; the title marker twice
\* and blank vocabulary entries
TopicReplies ==
    { <<"UNIT_TITLE:", " ", "Food", "\n", "TOPICS:", "\n", "*", " ", "meals", "\n",
        "*", "snacks", " ", "\n", "VOCAB:", " ", "eat", ",", " ", ",", "cook">>,
      <<"Sorry">>,
      <<" ", "UNIT_TITLE:", "UNIT_TITLE:", "\n", "VOCAB:", ",", " ">> }

SdkOutcomes ==
    {Ended("unavailable"), Ended("raises"), Ended("attribute_error")}
    \cup {Replied(t) : t \in TopicReplies \cup {NoneVal, <<>>, <<" ", "\n">>}}

HttpOutcomes ==
    {Ended("raises"), Ended("status"), Ended("no_candidates")}
    \cup {Replied(t) : t \in TopicReplies \cup {<<>>}}

ExtractTopicsCall ==
    /\ fn = "extract_topics_from_text" /\ ret = Pending
    /\ ret' = <<extract_topics_from_text(arg[1], arg[2], arg[3], arg[4])>>
    /\ UNCHANGED <<fn, arg>>
    /\ CFrame

CStart ==
    /\ ret = Pending
    /\ \/ fn = "parse_numbered_questions" /\ arg \in ParseArgs
       \/ fn = "_ensure_15" /\ arg \in EnsureArgs
       \/ fn = "convert_docx_to_pdf" /\ arg \in {<<w>> : w \in SUBSET Converters}
       \/ /\ fn = "convert_docx_to_pdf_with_method"
          /\ arg \in {<<m, w>> : m \in Converters \cup {"auto", "fastest"},
                                 w \in SUBSET Converters}
       \/ /\ fn = "fmt"
          /\ arg \in {<<t, kw>> : t \in SeqsUpTo(TemplateTokens, MaxTemplate),
                                  kw \in KwChoices}
       \/ fn = "export_docx" /\ arg \in DocArgs
       \/ /\ fn = "export_pdf"
          /\ arg \in {a \o <<w>> : a \in DocArgs, w \in DocConverters}
       \/ /\ fn = "PreviewWorker.run"
          /\ arg \in {a \o <<w, r>> : a \in DocArgs, w \in DocConverters,
                                       r \in BOOLEAN}
       \/ fn = "batch_result" /\ arg \in {<<t>> : t \in ParseTexts \cup ResponseTexts}
       \/ fn = "_content_key" /\ arg \in {<<c1, c2>> : c1 \in Contents, c2 \in Contents}
       \/ /\ fn = "PreviewWorker.run, export_docx"
          /\ arg \in {<<t, <<"T">>, l, q>> : t \in Templates, l \in DocLevels,
                                            q \in SessionQuestions}
       \/ fn = "GeminiSingleWorker.run" /\ arg \in {<<t>> : t \in SingleReplies}
       \/ /\ fn = "extract_topics_from_text"
          /\ arg \in {<<t, u, s, h>> : t \in OcrTexts \cup {NoneVal, <<>>, <<" ">>},
                                      u \in {<<"Document">>, <<"T">>},
                                      s \in SdkOutcomes, h \in HttpOutcomes}

CNext ==
    \/ ParseCall
    \/ EnsureCall
    \/ BatchResultCall
    \/ ConvertCall
    \/ ConvertWithMethodCall
    \/ FmtCall
    \/ ExportDocxCall
    \/ ExportPdfCall
    \/ PreviewRunCall
    \/ ContentKeyCall
    \/ PreviewAndExportCall
    \/ SingleResultCall
    \/ ExtractTopicsCall

\* ======================================================================
\* Specifications
\* ======================================================================
vars == <<svars, uvars, vvars, cvars>>

\* the editing session: no update dialog, no version comparison under way
Init == SInit /\ UStart({FALSE}, {TRUE}) /\ VStart({<<>>}, {<<>>}) /\ NoCall

Spec == Init /\ [][SNext]_vars

\* the updater, the main window idle
UpdaterInit == SInit /\ UInit /\ VStart({<<>>}, {<<>>}) /\ NoCall

UpdaterSpec == UpdaterInit /\ [][UNext]_vars

\* version comparison
VersionInit == SInit /\ UStart({FALSE}, {TRUE}) /\ VInit /\ NoCall

VNext == compare_versions

VersionSpec == VersionInit /\ [][VNext]_vars

\* the editing session once a unit title has been typed; every worker thread
\* started runs to the end of run() unless terminated, and the UI thread's
\* event loop delivers every queued signal
TitledInit ==
    SStart(<<" ", "T", " ">>) /\ UStart({FALSE}, {TRUE}) /\ VStart({<<>>}, {<<>>}) /\ NoCall

\* GeminiBatchWorker.run on some started thread, whatever the reply
BatchWorkerRuns ==
    \E w \in Threads, text \in ResponseTexts, f \in BOOLEAN :
        GeminiBatchWorker_run(w, text, f)

\* the UI thread's event loop handing a queued ok or err to its slot
BatchEventLoop == \E w \in Threads : Batch_done(w) \/ Batch_fail(w)

\* batch generation alone: the button, the worker and the dialog
GNext ==
    \/ \E t \in TopicsTexts : generate_with_gemini(t)
    \/ \E w \in Threads, text \in ResponseTexts, f \in BOOLEAN :
           GeminiBatchWorker_run(w, text, f)
    \/ \E w \in Threads : Batch_done(w)
    \/ \E w \in Threads : Batch_fail(w)
    \/ \E w \in Threads : Batch_cancel(w)

GenerationSpec ==
    TitledInit /\ [][GNext]_vars /\ WF_vars(BatchWorkerRuns) /\ WF_vars(BatchEventLoop)

\* functions called on their own
CallInit == SInit /\ UStart({FALSE}, {TRUE}) /\ VStart({<<>>}, {<<>>}) /\ CStart

CallSpec == CallInit /\ [][CNext]_vars

\* ======================================================================
\* Properties
\* ======================================================================

\* C1: in every reachable state of the editing session App.questions holds
\* exactly 15 entries.
C1_FifteenQuestions == Len(questions) = 15

\* a generated batch has been applied and a row edited afterwards
C1_Witness ==
    /\ \E w \in Threads : thr[w].kind = "batch" /\ thr[w].handled = <<"applied">>
    /\ questions[1] = <<"b">>
    /\ questions[2] = Filler

\* C2: in every reachable state each of the 15 entries of App.questions ends
\* in '?', the initial state and the state after any user edit included.
C2_AllEndInQuestionMark == \A i \in 1..Len(questions) : EndsQ(questions[i])

\* every entry but the one at 0-based position idx keeps its value and place
OthersKept(idx) ==
    /\ Len(questions') = Len(questions)
    /\ \A j \in 1..Len(questions) : j # idx + 1 => questions'[j] = questions[j]

\* C3: on_text_edit(idx, t) and _apply_single(idx, q) change only entry idx of
\* App.questions; on_text_edit with idx outside 0..14 changes nothing.
C3_OnlyEntryIdxChanges ==
    [][ /\ \A idx \in EditIdx, t \in EditTexts :
              RowEdited(idx, t) =>
                  IF 0 <= idx /\ idx <= 14
                  THEN OthersKept(idx) /\ questions'[idx + 1] = strip(t)
                  ELSE questions' = questions
        /\ \A w \in Threads :
              Single_done(w) =>
                  /\ OthersKept(thr[w].index)
                  /\ questions'[thr[w].index + 1] = strip(thr[w].payload)
      ]_vars

\* the last row was edited and then the first one regenerated: every other
\* row still holds its placeholder
C3_Witness ==
    /\ questions[15] = <<"a", "?">>
    /\ questions[1] = <<"e", "?">>
    /\ \A j \in 2..14 : questions[j] = InitialQuestions[j]

\* C4: when a PreviewWorker started with content key k reports done, its
\* image is shown only if k equals the content key of the current title,
\* level and questions; otherwise the displayed preview is left unchanged
\* and the worker's PNG file is deleted.
C4_StaleResultDiscarded ==
    [][ \A w \in Threads :
            Preview_on_done(w) =>
                IF thr[w].key = key_of(unit_title, level, questions)
                THEN pm' = thr[w].key /\ w \in png'
                ELSE pm' = pm /\ preview_visible' = preview_visible /\ w \notin png'
      ]_vars

\* a finished render was dropped as stale and its PNG removed while another
\* worker's image is on display
C4_Witness ==
    \E w \in Threads :
        /\ thr[w].kind = "preview"
        /\ thr[w].emitted = <<"done">>
        /\ thr[w].handled = <<"stale">>
        /\ w \notin png

\* C5: every worker run that is not terminated emits exactly one terminal
\* notification, success or failure, never both and never one twice.
C5_ExactlyOneTerminalSignal ==
    \A w \in Threads : thr[w].pc = "returned" => Len(thr[w].emitted) = 1

\* the downloaded file of download i was compared with the manifest's sha256
\* and found equal, case-insensitively
Verified(i) ==
    /\ Truthy(dls[i].m.sha256)
    /\ Lower(dls[i].got) = Lower(dls[i].m.sha256)

\* C6: begin_update_replace is reached only for a downloaded file whose
\* SHA-256 digest was compared with the manifest's sha256 field and found
\* equal; an unverified download never leads to replacement.
C6_OnlyVerifiedReplaced ==
    \A i \in 1..Len(dls) :
        dls[i].pc \in {"replacing", "replace_failed", "lock_found"} => Verified(i)

\* C7: while UPDATE_IN_PROGRESS is true no UpdateAvailableDialog is opened,
\* neither from the About dialog's button nor from an update_available
\* notification.
C7_NoDialogWhileInProgress ==
    \A k \in 1..Len(ustack) : ~ustack[k].flag_at_open

\* a download is running, waits for its slot, or its replacement was launched
UpdateUnderWay ==
    \E i \in 1..Len(dls) : dls[i].pc \in {"running", "done", "err", "replacing"}

\* C8: UPDATE_IN_PROGRESS is true only while an update is in progress: after
\* a download error, a SHA-256 mismatch or an exception the flag is false
\* again.
C8_FlagOnlyWhileInProgress == UPDATE_IN_PROGRESS => UpdateUnderWay

\* positions of v where a run of digits starts
RunStarts(v) ==
    {i \in 1..Len(v) : v[i] \in Digits /\ (i = 1 \/ v[i - 1] \notin Digits)}

\* the last position of the run of digits that starts at i
RunEnd(v, i) ==
    CHOOSE j \in i..Len(v) :
        /\ \A k \in i..j : v[k] \in Digits
        /\ (j = Len(v) \/ v[j + 1] \notin Digits)

\* the decimal number written at positions i..j of v
RECURSIVE Decimal(_, _, _)
Decimal(v, i, j) == IF j < i THEN 0 ELSE Decimal(v, i, j - 1) * 10 + DigitVal(v[j])

\* t is the tuple of the digit runs of v read as integers, or (0,) when v has
\* no digit
IsTupleOf(t, v) ==
    IF RunStarts(v) = {}
    THEN t = <<0>>
    ELSE /\ Len(t) = Cardinality(RunStarts(v))
         /\ \A i \in RunStarts(v) :
                t[Cardinality({s \in RunStarts(v) : s <= i})] = Decimal(v, i, RunEnd(v, i))

\* C9: version_tuple maps a version string to the tuple of its digit runs
\* read as integers, and to (0,) for an empty, None or digit-free string;
\* version_tuple('0.23') < version_tuple('1.0'); tuple comparison is a strict
\* total order (irreflexive, transitive, any two distinct tuples comparable).
C9_VersionTupleOrder ==
    ta # Unset =>
        /\ IsTupleOf(ta, IF va = NoneVal THEN <<>> ELSE va)
        /\ IsTupleOf(tb, IF vb = NoneVal THEN <<>> ELSE vb)
        /\ tuple_lt(version_tuple(<<"0", ".", "2", "3">>), version_tuple(<<"1", ".", "0">>))
        /\ ~tuple_lt(ta, ta)
        /\ (ta # tb => (tuple_lt(ta, tb) \/ tuple_lt(tb, ta)))
        /\ ~(tuple_lt(ta, tb) /\ tuple_lt(tb, ta))
        /\ \A vc \in SampleVersions :
               LET tc == version_tuple(vc)
               IN  /\ (tuple_lt(ta, tb) /\ tuple_lt(tb, tc) => tuple_lt(ta, tc))
                   /\ (tuple_lt(tc, ta) /\ tuple_lt(ta, tb) => tuple_lt(tc, tb))
                   /\ (tuple_lt(ta, tc) /\ tuple_lt(tc, tb) => tuple_lt(ta, tb))

\* '0.23' and '1.0' have been compared
C9_Witness ==
    /\ va = <<"0", ".", "2", "3">> /\ vb = <<"1", ".", "0">>
    /\ ta = <<0, 23>> /\ tb = <<1, 0>>
    /\ tuple_lt(ta, tb)

\* the manifest's version tuple is strictly greater than the local one
Newer(m) == tuple_gt(version_tuple(get_version(m)), version_tuple(APP_VERSION))

\* C10: an update is offered if and only if the manifest's version tuple is
\* strictly greater than the APP_VERSION tuple: BackgroundUpdateChecker emits
\* update_available, and check_for_updates opens the dialog for the manifest
\* it fetched, exactly in that case; for an equal or lower version, or a
\* manifest without version, no dialog is opened and no download is started.
C10_OfferedIffNewer ==
    /\ [](/\ \A k \in 1..Len(ustack) : Newer(ustack[k].m)
          /\ \A k \in 1..Len(notifq) : Newer(notifq[k].m)
          /\ \A i \in 1..Len(dls) : Newer(dls[i].m))
    /\ [][ \A m \in Manifests :
             /\ \A src \in {"app", "about"} :
                    BackgroundUpdateChecker_run(src, m, TRUE) =>
                        (Newer(m) <=> notifq' = Append(notifq, [src |-> src, m |-> m]))
             /\ (about_check_clicked(m, TRUE) /\ ~UPDATE_IN_PROGRESS) =>
                    (Newer(m) <=> Len(ustack') = Len(ustack) + 1)
             /\ (notification_accepted(m, TRUE) /\ ~UPDATE_IN_PROGRESS) =>
                    (Newer(m) <=> Len(ustack') = Len(ustack))
         ]_vars

\* check_for_updates has opened its dialog for a newer manifest after an
\* older one was fetched without any offer
C10_Witness ==
    /\ fetches >= 2
    /\ Len(ustack) = 1 /\ ustack[1].fn = "check" /\ Newer(ustack[1].m)
    /\ notifq = <<>>

\* the call of f has returned
Returned(f) == fn = f /\ ret # Pending

\* every item of the list ends in "?"
AllEndQ(qs) == \A i \in 1..Len(qs) : EndsQ(qs[i])

\* C11: for every text and every max_items N >= 0, parse_numbered_questions
\* returns at most N items and every item ends in "?", in the single-file
\* implementation and in the packaged one.
C11_AtMostNEndingInQ ==
    Returned("parse_numbered_questions") =>
        /\ Len(ret[1].single) <= arg[2] /\ AllEndQ(ret[1].single)
        /\ Len(ret[1].pkg) <= arg[2] /\ AllEndQ(ret[1].pkg)

\* the elements of a finite set of integers, ascending
RECURSIVE Ascending(_)
Ascending(S) ==
    IF S = {} THEN <<>>
    ELSE LET m == CHOOSE x \in S : \A y \in S : x <= y
         IN  <<m>> \o Ascending(S \ {m})

\* the positions of the non-blank entries of a list, ascending
NonBlankAt(x) == Ascending({i \in 1..Len(x) : strip(OrEmpty(x[i])) # <<>>})

\* C12: for every input list (empty, shorter, longer than 15, with blank or
\* None entries) _ensure_15 returns exactly 15 non-blank strings: the
\* non-blank inputs (as the code stores them, whitespace runs collapsed) in
\* their original relative order, cut to the first 15, followed by filler
\* questions; and _ensure_15 applied to its own result returns that result.
C12_PadsToFifteen ==
    Returned("_ensure_15") =>
        LET x  == arg[1]
            r  == ret[1].once
            nb == NonBlankAt(x)
            k  == IF Len(nb) < 15 THEN Len(nb) ELSE 15
        IN  /\ Len(r) = 15
            /\ \A j \in 1..15 : strip(r[j]) # <<>>
            /\ \A j \in 1..k : r[j] = collapse_ws(strip(x[nb[j]]))
            /\ \A j \in (k + 1)..15 : r[j] = Filler
            /\ ret[1].twice = r

\* a list of 18 entries, the first None and one more blank, has been cut to
\* its first 15 non-blank entries
C12_Witness ==
    /\ Returned("_ensure_15")
    /\ Len(arg[1]) = 18
    /\ Len(NonBlankAt(arg[1])) = 16
    /\ arg[1][1] = NoneVal
    /\ ret[1].once[1] = <<"q", "1", "?">>
    /\ ret[1].once[15] = <<"q", "15", "?">>

\* C13: whatever text the model returns (none, fewer than 15 questions, more
\* than 15, repeated questions, lines that are no questions), the list that
\* GeminiBatchWorker hands to ok.emit has exactly 15 entries and each of
\* them ends in "?".
C13_BatchEmitsFifteenQuestions ==
    /\ Returned("batch_result") => Len(ret[1]) = 15 /\ AllEndQ(ret[1])
    /\ \A w \in Threads :
           thr[w].kind = "batch" /\ thr[w].emitted = <<"ok">> /\ thr[w].handled = <<>>
               => Len(thr[w].payload) = 15 /\ AllEndQ(thr[w].payload)

\* a reply with one question twice and a line that is no question has given
\* that question once, then fillers
C13_Witness ==
    /\ Returned("batch_result")
    /\ arg[1] = <<"1", ".", " ", "a", "?", "\n", "2", ".", " ", "A", "?", "\n", "b", ".">>
    /\ ret[1][1] = <<"a", "?">>
    /\ ret[1][2] = Filler

\* the stripped line is numbered ("n." or "n)") or bulleted, and ends in "?"
MarkedLine(s) == numbered_group(s) # NoMatch \/ bulleted_group(s) # NoMatch

\* the question a marked line carries, as returned
QuestionOf(s) ==
    clean_question(strip(IF numbered_group(s) # NoMatch THEN numbered_group(s)
                         ELSE bulleted_group(s)) \o <<"?">>)

\* the questions of the first n marked lines of a text in line order, each
\* dropped if an earlier one equals it case-insensitively
MarkedQuestions(text, n) ==
    LET lines == splitlines(text)
        ln(j) == strip(lines[j])
        M     == Take(Ascending({j \in 1..Len(lines) : MarkedLine(ln(j))}), n)
        K     == Ascending({i \in 1..Len(M) :
                     \A h \in 1..(i - 1) :
                         lower(QuestionOf(ln(M[h]))) # lower(QuestionOf(ln(M[i])))})
    IN  [i \in 1..Len(K) |-> QuestionOf(ln(M[K[i]]))]

\* C17: parse_numbered_questions (single-file version) keeps only lines that
\* are numbered or bulleted and end in "?", returns them in the order of
\* their lines, and de-duplicates case-insensitively, keeping the first
\* occurrence.
C17_OnlyMarkedLinesInOrderDeduped ==
    Returned("parse_numbered_questions") =>
        ret[1].single = MarkedQuestions(arg[1], arg[2])

\* C17, amended: when some line is numbered or bulleted and ends in "?", the
\* result is exactly the questions of those lines (the first max_items of
\* them), in line order, de-duplicated case-insensitively with the first
\* occurrence kept; when no line is, the function falls back to the pieces
\* between number markers, and still returns at most max_items items ending
\* in "?", no two equal case-insensitively.
C17_MarkedLinesElseFallback ==
    Returned("parse_numbered_questions") =>
        LET r     == ret[1].single
            lines == splitlines(arg[1])
        IN  /\ (\E j \in 1..Len(lines) : MarkedLine(strip(lines[j])))
                   => r = MarkedQuestions(arg[1], arg[2])
            /\ Len(r) <= arg[2] /\ AllEndQ(r)
            /\ \A i, j \in 1..Len(r) : i # j => lower(r[i]) # lower(r[j])

\* "1. a?" followed by "2) A?": the second is dropped as a repetition
C17_Witness ==
    /\ Returned("parse_numbered_questions")
    /\ arg = << <<"1", ".", " ", "a", "?", "\n", "2", ")", " ", "A", "?">>, 2 >>
    /\ ret[1].single = << <<"a", "?">> >>

\* the order of the fallback
ConverterOrder == <<"reportlab", "docx2pdf", "word_com", "libreoffice">>

\* C14: convert_docx_to_pdf tries ReportLab, then docx2pdf, then Word COM,
\* then LibreOffice; each is tried only after all earlier ones failed, none
\* is tried twice, and it raises only after all four have failed.
C14_FourConverterFallback ==
    Returned("convert_docx_to_pdf") =>
        LET works == arg[1]
            tried == ret[1].tried
            n     == Len(tried)
        IN  /\ n \in 1..4
            /\ tried = SubSeq(ConverterOrder, 1, n)
            /\ \A i \in 1..(n - 1) : tried[i] \notin works
            /\ ret[1].raised <=> (n = 4 /\ works = {})
            /\ ~ret[1].raised => tried[n] \in works

\* every way of reading a template as a sequence of plain tokens, doubled
\* braces and placeholders "{" key "}" with key supplied, rendered
RECURSIVE Renderings(_, _)
Renderings(t, kw) ==
    IF t = <<>> THEN {<<>>}
    ELSE (IF Head(t) \notin {"{", "}"}
          THEN {<<Head(t)>> \o r : r \in Renderings(Tail(t), kw)} ELSE {})
         \cup
         (IF Len(t) >= 2 /\ t[1] = t[2] /\ t[1] \in {"{", "}"}
          THEN {<<t[1]>> \o r : r \in Renderings(Drop(t, 2), kw)} ELSE {})
         \cup
         (IF Len(t) >= 3 /\ t[1] = "{" /\ t[2] \in DOMAIN kw /\ t[3] = "}"
          THEN {kw[t[2]] \o r : r \in Renderings(Drop(t, 3), kw)} ELSE {})

\* C15: fmt(template, **kw) returns the template with every {name}
\* placeholder replaced by the supplied value when all placeholders are
\* supplied (a doubled brace being the template's way of writing one brace);
\* when formatting fails, because a placeholder has no supplied value or the
\* template is malformed, it does not raise and returns the template
\* unchanged.
C15_FmtSubstitutesOrReturnsTemplate ==
    Returned("fmt") =>
        LET R == Renderings(arg[1], arg[2])
        IN  /\ ret[1] # FormatError
            /\ R # {} => R = {ret[1]}
            /\ R = {} => ret[1] = arg[1]

\* "Hello{name}" with name and level supplied
C15_Witness ==
    /\ Returned("fmt")
    /\ arg[1] = <<"Hello", "{", "name", "}">>
    /\ DOMAIN arg[2] = {"name", "level"}
    /\ ret[1] = <<"Hello", "John">>

\* no paragraph of the document has the stripped text "Discussion"
MarkerMissing(template) == find_discussion(template) = 0

\* C16: when the template has no paragraph whose stripped text is exactly
\* "Discussion", export_docx and export_pdf show an error and write no file
\* at the chosen path, PreviewWorker emits failed and never done, and in all
\* three cases questions, title and level are unchanged.
C16_MissingMarkerIsAnError ==
    /\ (Returned("export_docx") \/ Returned("export_pdf"))
       /\ MarkerMissing(arg[1]) /\ strip(arg[2]) # <<>>
           => /\ ret[1].shown = "error"
              /\ ret[1].file = NoFile
              /\ ret[1].session =
                     [questions |-> arg[4], unit_title |-> arg[2], level |-> arg[3]]
    /\ Returned("PreviewWorker.run") /\ MarkerMissing(arg[1])
           => /\ ret[1].emitted # <<>>
              /\ \A i \in 1..Len(ret[1].emitted) : ret[1].emitted[i] = "failed"
              /\ ret[1].shown = NoFile

\* some run of the document is the unit title followed by rest
TitleRunIs(doc, title, rest) ==
    \E j \in 1..Len(doc) : \E i \in 1..Len(doc[j]) : doc[j][i] = title \o rest

\* C19: in the saved document the "LOOKING BACK" placeholder is replaced by
\* the unit title exactly as entered and the template's level token by the
\* selected level, and the level replacement never alters text that came
\* from the unit title, whatever the title (one holding a level token such
\* as "A1" or "B2" included); the same for the document PreviewWorker
\* builds.  Stated for templates with a run that is the placeholder alone:
\* that run then reads as the unit title.
C19_TitleKeptByLevelReplacement ==
    /\ Returned("export_docx") /\ ret[1].shown = "saved"
       /\ (\E j \in 1..Len(arg[1]) : arg[1][j] = <<LOOKING_BACK>>)
           => TitleRunIs(ret[1].file, arg[2], <<>>)
    /\ Returned("PreviewWorker.run") /\ ret[1].shown # NoFile
       /\ (\E j \in 1..find_discussion(arg[1]) : arg[1][j] = <<LOOKING_BACK>>)
           => TitleRunIs(ret[1].shown, arg[2], <<>>)

\* what happened to worker w on the UI thread, oldest first, contains a
\* before a later b
Before(w, a, b) ==
    \E i, j \in 1..Len(thr[w].handled) :
        i < j /\ thr[w].handled[i] = a /\ thr[w].handled[j] = b

\* C18: once the user has cancelled the progress dialog of a batch
\* generation or a single regeneration, the worker is out of App._workers
\* and no result of that worker is applied to App.questions afterwards,
\* however the worker's ok emission and the cancel handler interleave.
C18_CancelIsFinal ==
    \A w \in Threads :
        thr[w].kind \in {"batch", "single"} =>
            /\ ~Before(w, "cancelled", "applied")
            /\ "cancelled" \in {thr[w].handled[i] : i \in 1..Len(thr[w].handled)}
                   => w \notin App_workers /\ w \notin prog

\* the batch worker w started by generate_with_gemini is in flight: its
\* progress dialog is open
InFlight(w) == thr[w].kind = "batch" /\ w \in prog

\* C20: the Generate button is disabled exactly while a batch worker started
\* by generate_with_gemini is in flight; every batch generation eventually
\* ends (success, failure or cancel) with the dialog closed, the button
\* enabled and the worker out of App._workers; and no second batch worker is
\* started while the button is disabled.
C20_GenerateDisabledWhileInFlight ==
    /\ [](~btn_generate <=> \E w \in Threads : InFlight(w))
    /\ \A w \in Threads :
           InFlight(w) ~> (w \notin prog /\ w \notin App_workers /\ btn_generate)
    /\ [][(\E w \in Threads : ~InFlight(w) /\ InFlight(w)') => btn_generate]_vars

\* C21: after a change of the unit title, the level or a question text, from
\* the clear until the next show_exact (that is, while SimplePreview._pm is
\* null), paintEvent draws no page image.
C21_ClearedPreviewPaintsNothing == pm = NullPm => paintEvent = NullPm

\* C22: two session contents that differ in unit title, level or any of the
\* 15 question strings (which may contain "|") never have the same
\* _content_key, SHA-1 taken as injective on its input.
C22_ContentKeyIdentifiesContent ==
    Returned("_content_key") => (arg[1] # arg[2] => ret[1].k1 # ret[1].k2)

\* C23: for every session state, including one where a question is the empty
\* string or holds repeated whitespace, the numbered question paragraphs that
\* PreviewWorker writes are the same texts with the same numbers as those
\* export_docx writes.
C23_PreviewMatchesExport ==
    (Returned("PreviewWorker.run, export_docx")
        /\ ret[1].preview # NoFile /\ ret[1].export # NoFile)
    => added_paragraphs(ret[1].preview, 15) = added_paragraphs(ret[1].export, 15)

SdkFailed(s) == s.kind # "text" \/ strip(OrEmpty(s.text)) = <<>>

\* the HTTP call failed or returned no candidate
HttpFailed(h) == h.kind # "text"

\* C25: extract_topics_from_text never raises and always returns a
\* (title, topics_text, vocab) triple; it tries the SDK call, then the HTTP
\* call, then the keyword fallback, each only after the previous one failed
\* or returned nothing; when it ends in the keyword fallback the result has
\* exactly three topics, at most eight vocabulary words and the caller's
\* unit_title.
C25_TopicExtractionFallsBack ==
    Returned("extract_topics_from_text") =>
        LET r == ret[1]
        IN  /\ Len(r.result) = 3
            /\ r.tried \in { <<>>, <<"sdk">>, <<"sdk", "http">>,
                             <<"sdk", "http", "simple">>, <<"http">>,
                             <<"http", "simple">> }
            /\ (r.tried # <<>> /\ r.tried # <<"sdk">>) => SdkFailed(arg[3])
            /\ (r.tried # <<>> /\ r.tried[Len(r.tried)] = "simple") =>
                   /\ HttpFailed(arg[4])
                   /\ Len(splitlines(r.result[2])) = 3
                   /\ \A i \in 1..3 : Head(splitlines(r.result[2])[i]) = "*"
                   /\ Len(r.result[3]) <= 8
                   /\ r.result[1] = arg[2]

\* the SDK raised, the HTTP status was not 200, and the keyword fallback cut
\* the vocabulary of an eleven-word text at eight words
C25_Witness ==
    /\ Returned("extract_topics_from_text")
    /\ ret[1].tried = <<"sdk", "http", "simple">>
    /\ Len(split_ws(arg[1])) > 8
    /\ Len(ret[1].result[3]) = 8

\* C26: at most one _Downloader is running at any time, under any
\* interleaving of manual checks, background notifications, nested update
\* dialogs being accepted and download completions or failures.
C26_AtMostOneDownloadRunning ==
    Cardinality({i \in 1..Len(dls) : dls[i].pc = "running"}) <= 1

\* the preview workers still executing run()
RunningPreviews == {w \in Threads : thr[w].kind = "preview" /\ thr[w].pc = "running"}

\* C27: after _start_exact_render has returned, the newly started
\* PreviewWorker is the only preview worker still executing run(), and every
\* preview worker still running is a member of App._workers.
C27_OnlyNewestPreviewRuns ==
    /\ Cardinality(RunningPreviews) <= 1
    /\ RunningPreviews \subseteq App_workers

\* C28: on every path on which PreviewWorker.run emits failed after having
\* created its temporary directory (missing marker, conversion failure,
\* rasterisation failure), the directory and the preview.docx, .pdf and .png
\* in it no longer exist when run returns.
C28_FailedPreviewLeavesNoFiles ==
    (Returned("PreviewWorker.run")
        /\ ret[1].outcome \in {"no_marker", "convert_fail", "raster_fail"})
    => ret[1].files = {}

\* a step of generate_with_gemini or regen_single: a batch or single worker
\* is created
StartsGeneration ==
    \E w \in Threads :
        thr[w].kind = "none" /\ thr'[w].kind \in {"batch", "single"}

\* C29: generate_with_gemini and regen_single leave the unit title and the
\* level as they were, whatever the topics box holds (cefr_tier and modifier
\* are assigned by neither and are not variables of the model)
C29_GenerationKeepsScalars ==
    [][StartsGeneration =>
          unit_title' = unit_title /\ level' = level]_vars

\* a call of begin_update_replace on Windows that finds the lock file
FindsLock ==
    /\ os_nt /\ lock_file
    /\ \E i \in 1..Len(dls) :
           dls[i].pc = "done" /\ dls'[i].pc = "lock_found"

\* a call of begin_update_replace on Windows that launches the replace
\* script, which has not finished when the call ends
LaunchesScript == os_nt /\ Len(replaced') > Len(replaced)

\* C30: on Windows the lock file outlives the call that launched the replace
\* script, and a call that finds the lock launches nothing and leaves the
\* lock in place
C30_LockIsMutualExclusion ==
    [][/\ LaunchesScript => lock_file'
       /\ FindsLock => replaced' = replaced /\ lock_file']_vars

====
